---- MODULE Spec2Model ----
(***************************************************************************)
(* remark-mdx-snippets: the mdxSnippet transform.  A document tree is      *)
(* walked, every marker element starts a read or a fetch, and each         *)
(* promise chain (dispatch, splice, catch) settles on its own; the         *)
(* invocation awaits Promise.all of the chains.  Strings are sequences of  *)
(* one-character strings so that the string functions of the source are    *)
(* computed, not assumed.                                                  *)
(***************************************************************************)
EXTENDS Integers, Sequences, FiniteSets, TLC

\* cfg: the plugin options; doc: the source blocks of the document the tree was
\* parsed from; nodes: every node object, by identity; invs: the invocations of
\* the transformer; tasks: the promise chains, one per queued marker; log: the
\* console calls; deps: the addDependency calls; ios: the reads and fetches issued;
\* probe: one call of getFileExtension on its own, its argument and its result
VARIABLES cfg, doc, nodes, invs, tasks, log, deps, ios, probe

vars == <<cfg, doc, nodes, invs, tasks, log, deps, ios, probe>>

(* ------------------------------ bounds --------------------------------- *)

\* longest top-level document, in blocks
MaxDoc == 2
\* deepest nested invocation that is still started (the code has no limit)
MaxDepth == 3
\* longest source name given to the extension classifier on its own
MaxName == 3

(* --------------------------- JavaScript values ------------------------- *)

Null == [t |-> "null", s |-> <<>>]
Undefined == [t |-> "undefined", s |-> <<>>]
Str(s) == [t |-> "string", s |-> s]
\* a non-string attribute value: an mdxJsxAttributeValueExpression object
ExprValue == [t |-> "object", s |-> <<"{", "}">>]
\* a VFile object used where a string was expected
VFileObject(text) == [t |-> "vfile", s |-> text]

IsString(v) == v.t = "string"
\* JavaScript truthiness of the values above
Truthy(v) == CASE v.t = "string" -> v.s # <<>>
               [] v.t \in {"null", "undefined"} -> FALSE
               [] OTHER -> TRUE
\* a || b
Or(a, b) == IF Truthy(a) THEN a ELSE b

(* ------------------------------ strings -------------------------------- *)

UpperChars == <<"A", "B", "C", "D", "E", "F", "G", "H", "I", "J", "K", "L", "M",
                "N", "O", "P", "Q", "R", "S", "T", "U", "V", "W", "X", "Y", "Z">>
LowerChars == <<"a", "b", "c", "d", "e", "f", "g", "h", "i", "j", "k", "l", "m",
                "n", "o", "p", "q", "r", "s", "t", "u", "v", "w", "x", "y", "z">>

toLowerCaseChar(c) ==
  IF \E i \in 1..26 : UpperChars[i] = c
  THEN LowerChars[CHOOSE i \in 1..26 : UpperChars[i] = c]
  ELSE c

toLowerCase(s) == [i \in 1..Len(s) |-> toLowerCaseChar(s[i])]

\* String.prototype.lastIndexOf for a one-character needle, 0-based, -1 if absent
lastIndexOf(s, c) ==
  IF \E i \in 1..Len(s) : s[i] = c
  THEN (CHOOSE i \in 1..Len(s) : s[i] = c /\ \A j \in (i+1)..Len(s) : s[j] # c) - 1
  ELSE -1

\* String.prototype.substring(from), 0-based
substring(s, from) == IF from >= Len(s) THEN <<>> ELSE SubSeq(s, from + 1, Len(s))

startsWith(s, p) == Len(s) >= Len(p) /\ SubSeq(s, 1, Len(p)) = p

Max(a, b) == IF a >= b THEN a ELSE b

\* a classifier that takes the last dot wherever it is
getFileExtensionAnyDot(filePath) ==
  LET lastDot == lastIndexOf(filePath, ".")
  IN IF lastDot = -1
     THEN <<>>
     ELSE toLowerCase(substring(filePath, lastDot + 1))

\* the extension as written, without toLowerCase
getFileExtensionNoLower(filePath) ==
  LET lastDot == lastIndexOf(filePath, ".")
      lastSlash == Max(lastIndexOf(filePath, "/"), lastIndexOf(filePath, "\\"))
  IN IF lastDot = -1 \/ lastDot < lastSlash
     THEN <<>>
     ELSE substring(filePath, lastDot + 1)

getFileExtension(filePath) ==
  LET lastDot == lastIndexOf(filePath, ".")
      lastSlash == Max(lastIndexOf(filePath, "/"), lastIndexOf(filePath, "\\"))
  IN IF lastDot = -1 \/ lastDot < lastSlash
     THEN <<>>
     ELSE toLowerCase(substring(filePath, lastDot + 1))

isMarkdownExtension(extension) ==
  extension = <<"m", "d">> \/ extension = <<"m", "d", "x">>

HttpsPrefix == <<"h", "t", "t", "p", "s", ":", "/", "/">>
HttpPrefix == <<"h", "t", "t", "p", ":", "/", "/">>

\* a test that knows https only
isRemoteFileHttpsOnly(value) == startsWith(value, HttpsPrefix)

isRemoteFile(value) == startsWith(value, HttpsPrefix) \/ startsWith(value, HttpPrefix)

\* path.join(snippetsDir, reference): join with "/" and normalise the
\* segments ("" and "." dropped, ".." removes the segment before it)
RECURSIVE SplitSegments(_, _, _)
SplitSegments(s, i, cur) ==
  IF i > Len(s) THEN <<cur>>
  ELSE IF s[i] = "/" THEN <<cur>> \o SplitSegments(s, i + 1, <<>>)
  ELSE SplitSegments(s, i + 1, Append(cur, s[i]))

RECURSIVE NormalizeSegments(_, _, _)
NormalizeSegments(segs, i, out) ==
  IF i > Len(segs) THEN out
  ELSE IF segs[i] = <<>> \/ segs[i] = <<".">> THEN NormalizeSegments(segs, i + 1, out)
  ELSE IF segs[i] = <<".", ".">> /\ out # <<>>
       THEN NormalizeSegments(segs, i + 1, SubSeq(out, 1, Len(out) - 1))
  ELSE NormalizeSegments(segs, i + 1, Append(out, segs[i]))

RECURSIVE JoinSegments(_, _)
JoinSegments(segs, i) ==
  IF i > Len(segs) THEN <<>> ELSE <<"/">> \o segs[i] \o JoinSegments(segs, i + 1)

pathJoin(dir, ref) ==
  JoinSegments(NormalizeSegments(SplitSegments(dir \o <<"/">> \o ref, 1, <<>>), 1, <<>>), 1)

(* ------------------------- the outside world --------------------------- *)

\* options.snippetsDir of every configuration of the model
snippetsDir == <<"/", "s">>

\* references used by the documents and the snippets of the model
RefA == <<"a", ".", "m", "d">>
RefB == <<"b", ".", "m", "d", "x">>
RefN == <<"n", ".", "m", "d">>
RefM == <<"m", ".", "m", "d">>
RefJs == <<"c", ".", "j", "s">>
RefUp == <<"u", ".", "M", "D">>
RefNoExt == <<"d", ".", "v", "/", "f">>
RefBad == <<"k", ".", "m", "d", "x">>
RefEmpty == <<"e", ".", "m", "d">>
RefEmptyTxt == <<"e", ".", "t">>
RefLoop == <<"l", ".", "m", "d">>
\* a file whose read, and a URL whose fetch, never settles
RefHang == <<"w", ".", "m", "d">>
UrlHang == HttpsPrefix \o <<"h", "/", "w", ".", "m", "d">>
RefMissing == <<"x", ".", "m", "d">>
RefG == <<"g", ".", "m", "d">>
RefO == <<"o", ".", "m", "d">>
\* two files that include each other
RefP == <<"p", ".", "m", "d">>
RefV == <<"v", ".", "m", "d">>
RefHttp == <<"h", "t", "t", "p", ".", "m", "d">>
RefSub == <<"t", "/", "i", ".", "m", "d">>
RefDotB == <<".", "/", "b", ".", "m", "d", "x">>
UrlR == HttpsPrefix \o <<"h", "/", "r", ".", "m", "d">>
UrlQ == HttpsPrefix \o <<"h", "/", "q", ".", "m", "d">>
UrlK == HttpsPrefix \o <<"h", "/", "k", ".", "m", "d">>
UrlT == HttpsPrefix \o <<"h", "/", "t", ".", "m", "d">>
UrlPy == HttpPrefix \o <<"h", "/", "s", ".", "p", "y">>
Url404 == HttpsPrefix \o <<"h", "/", "4", ".", "m", "d">>
UrlNet == HttpsPrefix \o <<"h", "/", "e", ".", "j", "s">>

\* a source block: what the text of a document or snippet is made of
Para(text) == [k |-> "para", name |-> "", attrs |-> <<>>, kids |-> <<>>, text |-> text]
ParaWith(text, kids) == [k |-> "para", name |-> "", attrs |-> <<>>, kids |-> kids, text |-> text]
Jsx(name, attrs, kids) == [k |-> "jsx", name |-> name, attrs |-> attrs, kids |-> kids, text |-> <<"<", ">">>]
JsxInline(name, attrs) == [k |-> "jsxInline", name |-> name, attrs |-> attrs, kids |-> <<>>, text |-> <<"<", ">">>]
\* text that the MDX grammar rejects (an unclosed "{" or "<")
Bad == [k |-> "bad", name |-> "", attrs |-> <<>>, kids |-> <<>>, text |-> <<"{">>]
\* a pipe table: a table for a grammar with GFM, a paragraph of text without
Table(text) == [k |-> "table", name |-> "", attrs |-> <<>>, kids |-> <<>>, text |-> text]
Attr(name, value) == [name |-> name, value |-> value]
Marker(ref) == Jsx("Snippet", <<Attr("file", Str(ref))>>, <<>>)

\* the text of each snippet, and the blocks a parser finds in it
TextA == <<"A">>
TextB == <<"B">>
TextN == <<"N">>
TextM == <<"M">>
TextJs == <<"J">>
TextU == <<"U">>
TextF == <<"F">>
TextK == <<"K">>
TextL == <<"L">>
TextR == <<"R">>
TextQ == <<"Q">>
TextPy == <<"Y">>
TextG == <<"G">>
TextI == <<"I">>
TextO == <<"O">>
TextP == <<"p">>
TextV == <<"v">>
TextT == <<"T">>
TextEmpty == <<>>

Blocks(text) ==
  CASE text = TextA -> <<Para(<<"A", "1">>), Para(<<"A", "2">>)>>
    [] text = TextB -> <<Para(<<"B", "1">>)>>
    [] text = TextN -> <<Para(<<"N", "1">>), Marker(RefB)>>
    [] text = TextM -> <<Marker(UrlPy)>>
    [] text = TextU -> <<Para(<<"U", "1">>)>>
    [] text = TextK -> <<Para(<<"K", "1">>), Bad>>
    [] text = TextL -> <<Marker(RefLoop)>>
    [] text = TextR -> <<Para(<<"R", "1">>), Marker(RefB)>>
    [] text = TextQ -> <<Marker(UrlPy)>>
    [] text = TextO -> <<Para(<<"O", "1">>), Marker(RefMissing)>>
    [] text = TextI -> <<Marker(RefB)>>
    [] text = TextG -> <<Jsx("CodeSnippet", <<Attr("source", Str(RefB))>>, <<>>), Marker(RefB)>>
    [] text = TextT -> <<Table(<<"T", "1">>)>>
    [] text = TextP -> <<Marker(RefV)>>
    [] text = TextV -> <<Para(<<"V", "1">>), Marker(RefP)>>
    [] text = TextEmpty -> <<>>
    [] OTHER -> <<Para(text)>>

\* the file system: absolute path -> text of the file, for the files that exist
FileSystem ==
  [p \in {pathJoin(snippetsDir, r) :
            r \in {RefA, RefB, RefN, RefM, RefJs, RefUp, RefNoExt, RefBad,
                   RefEmpty, RefEmptyTxt, RefLoop, RefG, RefSub, RefO, RefP, RefV}} |->
     CASE p = pathJoin(snippetsDir, RefA) -> TextA
       [] p = pathJoin(snippetsDir, RefB) -> TextB
       [] p = pathJoin(snippetsDir, RefN) -> TextN
       [] p = pathJoin(snippetsDir, RefM) -> TextM
       [] p = pathJoin(snippetsDir, RefJs) -> TextJs
       [] p = pathJoin(snippetsDir, RefUp) -> TextU
       [] p = pathJoin(snippetsDir, RefNoExt) -> TextF
       [] p = pathJoin(snippetsDir, RefBad) -> TextK
       [] p = pathJoin(snippetsDir, RefLoop) -> TextL
       [] p = pathJoin(snippetsDir, RefG) -> TextG
       [] p = pathJoin(snippetsDir, RefSub) -> TextI
       [] p = pathJoin(snippetsDir, RefO) -> TextO
       [] p = pathJoin(snippetsDir, RefP) -> TextP
       [] p = pathJoin(snippetsDir, RefV) -> TextV
       [] OTHER -> TextEmpty]

\* the network: what fetch(url) does
Response(ok, status, statusText, text) ==
  [kind |-> "response", ok |-> ok, status |-> status, statusText |-> statusText,
   text |-> text, message |-> ""]
NetworkError(message) ==
  [kind |-> "error", ok |-> FALSE, status |-> 0, statusText |-> "", text |-> <<>>,
   message |-> message]

Network(url) ==
  CASE url = UrlR -> Response(TRUE, 200, "OK", TextR)
    [] url = UrlQ -> Response(TRUE, 200, "OK", TextQ)
    [] url = UrlPy -> Response(TRUE, 200, "OK", TextPy)
    [] url = UrlK -> Response(TRUE, 200, "OK", TextK)
    [] url = UrlT -> Response(TRUE, 200, "OK", TextT)
    [] url = UrlNet -> NetworkError("Network error")
    [] OTHER -> Response(FALSE, 404, "Not Found", <<"N", "F">>)

(* ------------------------------ the tree ------------------------------- *)

\* node.name of a fragment container (name: null)
NullName == "<null>"

JsxTypes == {"mdxJsxFlowElement", "mdxJsxTextElement"}

HasField(node, f) == f \in DOMAIN node

\* Object.assign(target, source): own fields of source overwrite, the rest stay
ObjectAssign(target, source) ==
  [f \in (DOMAIN target) \cup (DOMAIN source) |->
     IF f \in DOMAIN source THEN source[f] ELSE target[f]]

\* does the grammar accept the text?  Plain markdown accepts everything,
\* the MDX grammar throws on malformed JSX or expressions.
RECURSIVE Parsable(_, _)
Parsable(blocks, mdx) ==
  \A i \in 1..Len(blocks) :
    /\ (mdx => blocks[i].k # "bad")
    /\ Parsable(blocks[i].kids, mdx)

\* the blocks as a grammar without remark-gfm reads them: a table is a paragraph
RECURSIVE Plain(_)
Plain(blocks) ==
  [i \in 1..Len(blocks) |->
     [blocks[i] EXCEPT !.k = IF @ = "table" THEN "para" ELSE @, !.kids = Plain(@)]]

\* processor.parse: the nodes a grammar produces for a sequence of blocks.
\* New nodes get the ids base+1, base+2, ...; a parent comes after its children.
RECURSIVE ParseSeq(_, _, _, _, _, _)
ParseSeq(blocks, i, mdx, base, line, top) ==
  IF i > Len(blocks) THEN [new |-> <<>>, ids |-> <<>>]
  ELSE
    LET b == blocks[i]
        pos == IF top THEN [line |-> i, column |-> 1] ELSE [line |-> line, column |-> i + 1]
        asJsx == mdx /\ b.k \in {"jsx", "jsxInline"}
        asHtml == ~mdx /\ b.k \in {"jsx", "jsxInline"}
        \* a paragraph starts with its text node
        lead == IF b.k \in {"para", "bad", "table"}
                THEN <<[type |-> "text", value |-> Str(b.text), position |-> pos]>>
                ELSE <<>>
        kids == IF asHtml THEN [new |-> <<>>, ids |-> <<>>]
                ELSE ParseSeq(b.kids, 1, mdx, base + Len(lead), pos.line, FALSE)
        leadIds == [j \in 1..Len(lead) |-> base + j]
        self ==
          IF asJsx
          THEN [type |-> IF b.k = "jsx" THEN "mdxJsxFlowElement" ELSE "mdxJsxTextElement",
                name |-> b.name, attributes |-> b.attrs, children |-> kids.ids,
                position |-> pos]
          ELSE IF asHtml
          THEN [type |-> "html", value |-> Str(b.text), position |-> pos]
          ELSE [type |-> IF b.k = "table" THEN "table" ELSE "paragraph",
                children |-> leadIds \o kids.ids, position |-> pos]
        selfId == base + Len(lead) + Len(kids.new) + 1
        rest == ParseSeq(blocks, i + 1, mdx, selfId, line, top)
    IN [new |-> lead \o kids.new \o <<self>> \o rest.new, ids |-> <<selfId>> \o rest.ids]

\* the parsed tree of a text: the new nodes, the last one being the root
Parse(blocks, mdx, base) ==
  LET body == ParseSeq(blocks, 1, mdx, base, 0, TRUE)
  IN body.new \o <<[type |-> "root", children |-> body.ids]>>

\* unist-util-visit: the nodes of a tree in pre-order
RECURSIVE PreOrder(_, _)
RECURSIVE PreOrderAll(_, _, _)
PreOrder(ns, id) ==
  <<id>> \o (IF HasField(ns[id], "children") THEN PreOrderAll(ns, ns[id].children, 1) ELSE <<>>)
PreOrderAll(ns, ids, i) ==
  IF i > Len(ids) THEN <<>> ELSE PreOrder(ns, ids[i]) \o PreOrderAll(ns, ids, i + 1)

\* Array.prototype.find on an attribute list: the first attribute of that name
HasAttr(attributes, name) == \E i \in 1..Len(attributes) : attributes[i].name = name
FindAttr(attributes, name) ==
  attributes[CHOOSE i \in 1..Len(attributes) :
               attributes[i].name = name /\ \A j \in 1..(i-1) : attributes[j].name # name]

(* ------------------------- errors and diagnostics ---------------------- *)

ErrorMsg(text, arg, cause, status, statusText) ==
  [text |-> text, arg |-> arg, cause |-> cause, status |-> status, statusText |-> statusText]
NoError == ErrorMsg("", <<>>, "", 0, "")

\* the message of the error that to-vfile's read rejects with
ReadError(filePath) ==
  ErrorMsg("ENOENT: no such file or directory, open", filePath, "", 0, "")
\* the error an MDX parse throws
ParseError == ErrorMsg("Could not parse expression with acorn", <<>>, "", 0, "")
\* new VFile(...) where VFile is only a JSDoc typedef
ReferenceError == ErrorMsg("VFile is not defined", <<>>, "", 0, "")
\* a promise of the queue rejected
QueueError == ErrorMsg("rejected", <<>>, "", 0, "")

LogEntry(level, head, elementName, fileAttribute, node, at, line, column, label, source, error) ==
  [level |-> level, head |-> head, elementName |-> elementName,
   fileAttribute |-> fileAttribute, node |-> node, at |-> at, line |-> line,
   column |-> column, label |-> label, source |-> source, error |-> error]

\* console.warn(`${elementName} tag missing required "${fileAttribute}" attribute:`, node)
MissingWarning(o, id) ==
  LogEntry("warn", "tag missing required attribute", o.elementName, o.fileAttribute,
           id, Undefined, 0, 0, "", <<>>, NoError)

\* console.warn('GFM processing failed, falling back to basic markdown:', errorMessage)
FallbackWarning(id, error) ==
  LogEntry("warn", "GFM processing failed, falling back to basic markdown:", "", "",
           id, Undefined, 0, 0, "", <<>>, error)

\* console.error('Error reading snippet file:', ...)
ReadingError(id, at, position, remote, sourcePath, error) ==
  LogEntry("error", "Error reading snippet file:", "", "", id, at, position.line,
           position.column, IF remote THEN "Remote URL" ELSE "File path", sourcePath, error)

(* ------------------------------ the walk ------------------------------- *)

NoContent == [isVFile |-> FALSE, value |-> <<>>, path |-> <<>>]

NewTask(i, id, value, remote, lang, meta, filePath) ==
  [inv |-> i, node |-> id, value |-> value, remote |-> remote, lang |-> lang,
   meta |-> meta, filePath |-> filePath, st |-> "io", content |-> NoContent,
   sub |-> 0, res |-> 0, err |-> NoError]

\* the optional string attribute: its value if it is a string, else null
StringAttr(attributes, name) ==
  IF HasAttr(attributes, name) /\ IsString(FindAttr(attributes, name).value)
  THEN FindAttr(attributes, name).value
  ELSE Null

\* a guard that looks for the default element name whatever the options say
IsMarkerDefaultName(o, node) == node.type \in JsxTypes /\ node.name = "Snippet"

\* the visitor's first guard: a JSX element of the configured name; o holds the
\* options of the plugin instance whose transformer is walking
IsMarker(o, node) == node.type \in JsxTypes /\ node.name = o.elementName

\* the visitor's second guard, negated: the file attribute is there without a
\* check of its type
HasFileAttrOnly(o, node) == HasAttr(node.attributes, o.fileAttribute)

\* the visitor's second guard: the file attribute is there and is a string
HasFileAttr(o, node) ==
  /\ HasAttr(node.attributes, o.fileAttribute)
  /\ IsString(FindAttr(node.attributes, o.fileAttribute).value)

\* a visitor that remembers what it has read: a target read or fetched before
\* is not read or fetched again
VisitorCached(acc, ns, id, i, compiler, o) ==
  LET node == ns[id] IN
  IF ~IsMarker(o, node) THEN acc
  ELSE IF ~HasFileAttr(o, node)
  THEN [acc EXCEPT !.log = Append(@, MissingWarning(o, id))]
  ELSE
    LET value == FindAttr(node.attributes, o.fileAttribute).value.s
        remote == isRemoteFile(value)
        lang == StringAttr(node.attributes, "lang")
        meta == StringAttr(node.attributes, "meta")
        filePath == IF remote THEN value ELSE pathJoin(o.snippetsDir, value)
        task == NewTask(i, id, value, remote, lang, meta, filePath)
        cached == \E k \in 1..Len(acc.ios) : acc.ios[k].target = filePath
    IN [acc EXCEPT
          !.deps = IF ~remote /\ compiler
                  THEN Append(@, [inv |-> i, node |-> id, path |-> filePath]) ELSE @,
          !.ios = IF cached THEN @
                  ELSE Append(@, [kind |-> IF remote THEN "fetch" ELSE "read",
                                  target |-> filePath, inv |-> i, node |-> id]),
          !.tasks = Append(@, task),
          !.queue = Append(@, Len(acc.tasks) + 1)]

\* the visitor of one node, for invocation i; acc collects what the walk did
Visitor(acc, ns, id, i, compiler, o) ==
  LET node == ns[id] IN
  IF ~IsMarker(o, node) THEN acc
  ELSE IF ~HasFileAttr(o, node)
  THEN [acc EXCEPT !.log = Append(@, MissingWarning(o, id))]
  ELSE
    LET value == FindAttr(node.attributes, o.fileAttribute).value.s
        remote == isRemoteFile(value)
        lang == StringAttr(node.attributes, "lang")
        meta == StringAttr(node.attributes, "meta")
        filePath == IF remote THEN value ELSE pathJoin(o.snippetsDir, value)
        task == NewTask(i, id, value, remote, lang, meta, filePath)
    IN [acc EXCEPT
          !.deps = IF ~remote /\ compiler
                  THEN Append(@, [inv |-> i, node |-> id, path |-> filePath]) ELSE @,
          !.ios = Append(@, [kind |-> IF remote THEN "fetch" ELSE "read",
                             target |-> filePath, inv |-> i, node |-> id]),
          !.tasks = Append(@, task),
          !.queue = Append(@, Len(acc.tasks) + 1)]

\* a walk that ends at the first marker it does not queue
RECURSIVE WalkUntilSkip(_, _, _, _, _, _, _)
WalkUntilSkip(acc, ns, order, k, i, compiler, o) ==
  IF k > Len(order) THEN acc
  ELSE IF IsMarker(o, ns[order[k]]) /\ ~HasFileAttr(o, ns[order[k]])
  THEN Visitor(acc, ns, order[k], i, compiler, o)
  ELSE WalkUntilSkip(Visitor(acc, ns, order[k], i, compiler, o), ns, order, k + 1, i, compiler, o)

\* the visitor applied to the nodes order[k..], in order
RECURSIVE WalkFrom(_, _, _, _, _, _, _)
WalkFrom(acc, ns, order, k, i, compiler, o) ==
  IF k > Len(order) THEN acc
  ELSE WalkFrom(Visitor(acc, ns, order[k], i, compiler, o), ns, order, k + 1, i, compiler, o)

\* a walk that stops at the first marker it launches, as if it awaited it
RECURSIVE WalkUntilLaunch(_, _, _, _, _, _, _)
WalkUntilLaunch(acc, ns, order, k, i, compiler, o) ==
  IF k > Len(order) THEN acc
  ELSE IF IsMarker(o, ns[order[k]]) /\ HasFileAttr(o, ns[order[k]])
  THEN Visitor(acc, ns, order[k], i, compiler, o)
  ELSE WalkUntilLaunch(Visitor(acc, ns, order[k], i, compiler, o), ns, order, k + 1, i,
                       compiler, o)

WalkOneAtATime(acc, ns, root, i, compiler, o) ==
  WalkUntilLaunch(acc, ns, PreOrder(ns, root), 1, i, compiler, o)

\* visit(tree, [...], visitor): everything the synchronous walk of invocation i does
Walk(acc, ns, root, i, compiler, o) ==
  WalkFrom(acc, ns, PreOrder(ns, root), 1, i, compiler, o)

Acc(ts, lg) == [tasks |-> ts, log |-> lg, deps |-> deps, ios |-> ios, queue |-> <<>>]

\* Promise.race-like: settled as soon as one promise of the queue is
PromiseAny(queue) ==
  IF \E k \in 1..Len(queue) : tasks[queue[k]].st = "rejected" THEN "rejected"
  ELSE IF queue = <<>> \/ \E k \in 1..Len(queue) : tasks[queue[k]].st = "fulfilled"
  THEN "fulfilled"
  ELSE "pending"

\* Promise.all(queue)
PromiseAll(queue) ==
  IF \E k \in 1..Len(queue) : tasks[queue[k]].st = "rejected" THEN "rejected"
  ELSE IF \A k \in 1..Len(queue) : tasks[queue[k]].st = "fulfilled" THEN "fulfilled"
  ELSE "pending"

NewInv(tree, path, compiler, parent, depth, queue, o) ==
  [tree |-> tree, path |-> path, compiler |-> compiler, st |-> "awaiting",
   queue |-> queue, parent |-> parent, depth |-> depth, options |-> o]

(* --------------------------- initial states ---------------------------- *)

\* no call of the classifier on its own is under way
NoProbe == [filePath |-> <<>>, extension |-> <<>>, returned |-> FALSE]

Options(elementName, fileAttribute, processor) ==
  [snippetsDir |-> snippetsDir, elementName |-> elementName,
   fileAttribute |-> fileAttribute, processor |-> processor]

\* the plugin options and the file context of the top-level invocation:
\* processor "none" is options.processor undefined, "mdx" is a processor that
\* has remark-parse and remark-mdx (the one the tests pass)
Setups ==
  { [options |-> Options("Snippet", "file", "none"), compiler |-> TRUE, path |-> Undefined],
    [options |-> Options("Snippet", "file", "mdx"), compiler |-> FALSE,
     path |-> Str(<<"/", "d">>)],
    [options |-> Options("Snippet", "file", "mdx"), compiler |-> TRUE, path |-> Undefined],
    [options |-> Options("CodeSnippet", "source", "none"), compiler |-> TRUE,
     path |-> Str(<<"/", "d">>)] }

MarkerWith(ref, extra) == Jsx("Snippet", <<Attr("file", Str(ref))>> \o extra, <<>>)

\* blocks that documents of every length are made of
CoreBlocks ==
  { Para(<<"P">>),
    Marker(RefA), Marker(RefJs), Marker(RefN), Marker(RefMissing), Marker(Url404),
    Jsx("Snippet", <<>>, <<>>) }

\* blocks that are tried alone
ExtraBlocks ==
  { Marker(RefB), Marker(RefM), Marker(RefUp), Marker(RefNoExt), Marker(RefBad),
    Marker(RefEmpty), Marker(RefEmptyTxt), Marker(RefLoop), Marker(RefDotB),
    Marker(RefG), Marker(RefSub), Marker(RefO), Marker(RefHttp), Jsx("CodeSnippet", <<Attr("source", Str(RefG))>>, <<>>),
    Jsx("Snippet", <<Attr("file", Str(RefA))>>, <<Para(<<"P">>)>>),
    Marker(UrlR), Marker(UrlQ), Marker(UrlPy), Marker(UrlNet), Marker(UrlT),
    MarkerWith(RefJs, <<Attr("lang", Str(<<"t", "s">>)), Attr("meta", Str(<<"m">>))>>),
    MarkerWith(RefJs, <<Attr("lang", Str(<<>>)), Attr("meta", Str(<<>>))>>),
    MarkerWith(RefNoExt, <<Attr("lang", ExprValue), Attr("meta", Str(<<"m">>))>>),
    MarkerWith(RefA, <<Attr("lang", Str(<<"t", "s">>))>>),
    Jsx("Snippet", <<Attr("file", ExprValue)>>, <<>>),
    Jsx("Snippet", <<Attr("file", Null)>>, <<>>),
    Jsx("Snippet", <<Attr("source", Str(RefA))>>, <<>>),
    Jsx("CodeSnippet", <<Attr("source", Str(RefA))>>, <<>>),
    Jsx("CodeSnippet", <<Attr("file", Str(RefA))>>, <<>>),
    Jsx("Other", <<Attr("file", Str(RefA))>>, <<Marker(RefB)>>),
    Jsx("Snippet", <<Attr("file", Str(RefA))>>, <<Marker(RefB)>>),
    ParaWith(<<"P">>, <<JsxInline("Snippet", <<Attr("file", Str(RefB))>>)>>),
    ParaWith(<<"P">>, <<JsxInline("Snippet", <<Attr("file", Str(RefA))>>)>>) }

SeqsUpTo(S, n) == UNION {[1..k -> S] : k \in 1..n}

\* documents that are tried as they are
ExtraDocs == { <<Marker(Url404), Marker(UrlNet)>>, <<Marker(RefB), Marker(RefN)>>,
               <<Marker(UrlR), Marker(UrlK)>>,
               <<Jsx("Snippet", <<>>, <<>>), Marker(RefO)>> }

Docs == SeqsUpTo(CoreBlocks, MaxDoc) \cup {<<b>> : b \in ExtraBlocks} \cup ExtraDocs

Init ==
  \E setup \in Setups, d \in Docs :
    /\ cfg = setup.options
    /\ doc = d
    /\ nodes = Parse(d, TRUE, 0)
    /\ invs = <<[tree |-> Len(Parse(d, TRUE, 0)), path |-> setup.path,
                 compiler |-> setup.compiler, st |-> "created", queue |-> <<>>,
                 parent |-> 0, depth |-> 1, options |-> setup.options]>>
    /\ tasks = <<>>
    /\ log = <<>>
    /\ deps = <<>>
    /\ ios = <<>>
    /\ probe = NoProbe

(* ------------------------------ resolution ----------------------------- *)

\* read(filePath, 'utf8') of to-vfile: a VFile, or the file system's error
read(filePath) ==
  IF filePath \in DOMAIN FileSystem
  THEN [ok |-> TRUE, content |-> [isVFile |-> TRUE, value |-> FileSystem[filePath],
                                  path |-> filePath], err |-> NoError]
  ELSE [ok |-> FALSE, content |-> NoContent, err |-> ReadError(filePath)]

\* a fetch that lets the underlying error through as it is
fetchRemoteContentBare(url) ==
  LET response == Network(url) IN
  IF response.kind = "error"
  THEN [ok |-> FALSE, content |-> NoContent,
        err |-> ErrorMsg(response.message, <<>>, "", 0, "")]
  ELSE IF ~response.ok
  THEN [ok |-> FALSE, content |-> NoContent,
        err |-> ErrorMsg("HTTP", <<>>, "", response.status, response.statusText)]
  ELSE [ok |-> TRUE, content |-> [isVFile |-> FALSE, value |-> response.text, path |-> url],
        err |-> NoError]

\* fetchRemoteContent(url): {value, path}, or one Error that wraps the cause
fetchRemoteContent(url) ==
  LET response == Network(url) IN
  IF response.kind = "error"
  THEN [ok |-> FALSE, content |-> NoContent,
        err |-> ErrorMsg("Failed to fetch remote content from", url, response.message, 0, "")]
  ELSE IF ~response.ok
  THEN [ok |-> FALSE, content |-> NoContent,
        err |-> ErrorMsg("Failed to fetch remote content from", url, "HTTP",
                         response.status, response.statusText)]
  ELSE [ok |-> TRUE, content |-> [isVFile |-> FALSE, value |-> response.text, path |-> url],
        err |-> NoError]

\* snippetFile.value || snippetFile
ValueOrFile(content) ==
  IF content.value # <<>> THEN Str(content.value)
  ELSE IF content.isVFile THEN VFileObject(content.value)
  ELSE [t |-> "object", s |-> <<>>]

\* the code node synthesized for content that is not markdown
codeBlockNode(lang, meta, extension, content) ==
  [type |-> "code",
   lang |-> Or(Or(lang, Str(extension)), Null),
   meta |-> Or(meta, Null),
   value |-> ValueOrFile(content)]

\* is the VFile class in scope where `new VFile(...)` is evaluated?  The module
\* imports it only as a JSDoc typedef.
VFileDefined == FALSE

\* has the processor that parses included content the MDX grammar?  The local
\* branch always adds remark-mdx; the remote branch has what options.processor has.
UsesMdx(o, remote) == IF remote THEN o.processor = "mdx" ELSE TRUE

\* every processor has remark-gfm
UsesGfmAlways(o, remote, threw) == TRUE

\* has the processor that parses included content remark-gfm?  The local one
\* and gfmProcessor have; basicProcessor is a fresh remark() without it when
\* options.processor is undefined, and is options.processor itself, the object
\* gfmProcessor's .use(remarkGfm) has just configured, when it is given.
UsesGfm(o, remote, threw) == ~remote \/ ~threw \/ o.processor # "none"

\* an instance that is added without options and runs with the defaults
NestedOptionsDefaults(o) ==
  [snippetsDir |-> <<"/", "_">>, elementName |-> "Snippet", fileAttribute |-> "file",
   processor |-> "none"]

\* the options a plugin instance gives to the instance it adds to the processor
\* of included content: { snippetsDir, fileAttribute, elementName, processor }
NestedOptions(o) ==
  [snippetsDir |-> o.snippetsDir, elementName |-> o.elementName,
   fileAttribute |-> o.fileAttribute, processor |-> o.processor]

\* a fragment that only sets the type and the children
ReplacementNoReset(ns, result) ==
  IF Len(ns[result].children) = 1
  THEN ns[ns[result].children[1]]
  ELSE [type |-> "mdxJsxFlowElement", children |-> ns[result].children]

\* always the first child, as if the result had one child
ReplacementFirstOnly(ns, result) ==
  IF Len(ns[result].children) >= 1
  THEN ns[ns[result].children[1]]
  ELSE [type |-> "mdxJsxFlowElement", name |-> NullName, attributes |-> <<>>,
        children |-> ns[result].children]

\* the fields the second then-callback assigns to the marker node
Replacement(ns, result) ==
  IF Len(ns[result].children) = 1
  THEN ns[ns[result].children[1]]
  ELSE [type |-> "mdxJsxFlowElement", name |-> NullName, attributes |-> <<>>,
        children |-> ns[result].children]

\* node.position?.start
PositionOf(node) ==
  IF HasField(node, "position") THEN node.position ELSE [line |-> 0, column |-> 0]

(* ------------------------------- actions ------------------------------- *)

\* the transformer is called on the document tree: the walk, up to the await
Transform ==
  /\ invs[1].st = "created"
  /\ LET w == Walk(Acc(tasks, log), nodes, invs[1].tree, 1, invs[1].compiler,
                 invs[1].options) IN
       /\ tasks' = w.tasks
       /\ log' = w.log
       /\ deps' = w.deps
       /\ ios' = w.ios
       /\ invs' = [invs EXCEPT ![1].st = "awaiting", ![1].queue = w.queue]
  /\ UNCHANGED <<probe, cfg, doc, nodes>>

\* the read of a local snippet settles
ReadSettle(t) ==
  /\ tasks[t].st = "io"
  /\ ~tasks[t].remote
  /\ LET r == read(tasks[t].filePath) IN
       tasks' = [tasks EXCEPT ![t].st = IF r.ok THEN "content" ELSE "ioFailed",
                              ![t].content = r.content, ![t].err = r.err]
  /\ UNCHANGED <<probe, cfg, doc, nodes, invs, log, deps, ios>>

\* the fetch of a remote snippet settles
FetchSettle(t) ==
  /\ tasks[t].st = "io"
  /\ tasks[t].remote
  /\ LET r == fetchRemoteContent(tasks[t].value) IN
       tasks' = [tasks EXCEPT ![t].st = IF r.ok THEN "content" ELSE "ioFailed",
                              ![t].content = r.content, ![t].err = r.err]
  /\ UNCHANGED <<probe, cfg, doc, nodes, invs, log, deps, ios>>

\* is the reference being expanded by invocation i or by one that led to it?
RECURSIVE InProgress(_, _)
InProgress(i, value) ==
  /\ invs[i].parent # 0
  /\ \/ tasks[invs[i].parent].value = value
     \/ InProgress(tasks[invs[i].parent].inv, value)

\* a first then-callback that detects a cycle: a reference that is being
\* expanded already is replaced by nothing
DispatchOnce(t) ==
  LET tk == tasks[t]
      extension == getFileExtension(tk.value)
      blocks == Blocks(tk.content.value)
      o == invs[tk.inv].options
      mdx == UsesMdx(o, tk.remote)
      gfmThrows == tk.remote /\ (~VFileDefined \/ ~Parsable(blocks, mdx))
      lg == IF gfmThrows
            THEN Append(log, FallbackWarning(tk.node,
                                IF VFileDefined THEN ParseError ELSE ReferenceError))
            ELSE log
      text == IF UsesGfm(o, tk.remote, gfmThrows) THEN blocks ELSE Plain(blocks)
      ns == nodes \o Parse(text, mdx, Len(nodes))
      i == Len(invs) + 1
      w == Walk(Acc([tasks EXCEPT ![t].st = "running", ![t].sub = i], lg),
                ns, Len(ns), i, FALSE, NestedOptions(o))
      code == codeBlockNode(tk.lang, tk.meta, extension, tk.content)
  IN
  /\ tk.st = "content"
  /\ isMarkdownExtension(extension) => invs[tk.inv].depth < MaxDepth
  /\ IF ~isMarkdownExtension(extension)
     THEN /\ nodes' = nodes \o <<code, [type |-> "root", children |-> <<Len(nodes) + 1>>]>>
          /\ tasks' = [tasks EXCEPT ![t].st = "result", ![t].res = Len(nodes) + 2]
          /\ UNCHANGED <<invs, log, deps, ios>>
     ELSE IF InProgress(tk.inv, tk.value)
     THEN /\ nodes' = nodes \o <<[type |-> "root", children |-> <<>>]>>
          /\ tasks' = [tasks EXCEPT ![t].st = "result", ![t].res = Len(nodes) + 1]
          /\ UNCHANGED <<invs, log, deps, ios>>
     ELSE IF ~Parsable(blocks, mdx)
     THEN /\ tasks' = [tasks EXCEPT ![t].st = "thrown", ![t].err = ParseError]
          /\ log' = lg
          /\ UNCHANGED <<nodes, invs, deps, ios>>
     ELSE /\ nodes' = ns
          /\ tasks' = w.tasks
          /\ log' = w.log
          /\ deps' = w.deps
          /\ ios' = w.ios
          /\ invs' = Append(invs, NewInv(Len(ns), Str(IF tk.remote THEN tk.value ELSE tk.filePath),
                                         FALSE, t, invs[tk.inv].depth + 1, w.queue,
                                         NestedOptions(o)))
  /\ UNCHANGED <<probe, cfg, doc>>

\* the first then-callback: content-type dispatch; for markdown the parse and
\* the start of the recursive invocation (its walk), for the rest the code node
Dispatch(t) ==
  LET tk == tasks[t]
      extension == getFileExtension(tk.value)
      blocks == Blocks(tk.content.value)
      o == invs[tk.inv].options
      mdx == UsesMdx(o, tk.remote)
      gfmThrows == tk.remote /\ (~VFileDefined \/ ~Parsable(blocks, mdx))
      lg == IF gfmThrows
            THEN Append(log, FallbackWarning(tk.node,
                                IF VFileDefined THEN ParseError ELSE ReferenceError))
            ELSE log
      text == IF UsesGfm(o, tk.remote, gfmThrows) THEN blocks ELSE Plain(blocks)
      ns == nodes \o Parse(text, mdx, Len(nodes))
      i == Len(invs) + 1
      w == Walk(Acc([tasks EXCEPT ![t].st = "running", ![t].sub = i], lg),
                ns, Len(ns), i, FALSE, NestedOptions(o))
      code == codeBlockNode(tk.lang, tk.meta, extension, tk.content)
  IN
  /\ tk.st = "content"
  /\ isMarkdownExtension(extension) => invs[tk.inv].depth < MaxDepth
  /\ IF ~isMarkdownExtension(extension)
     THEN /\ nodes' = nodes \o <<code, [type |-> "root", children |-> <<Len(nodes) + 1>>]>>
          /\ tasks' = [tasks EXCEPT ![t].st = "result", ![t].res = Len(nodes) + 2]
          /\ UNCHANGED <<invs, log, deps, ios>>
     ELSE IF ~Parsable(blocks, mdx)
     THEN /\ tasks' = [tasks EXCEPT ![t].st = "thrown", ![t].err = ParseError]
          /\ log' = lg
          /\ UNCHANGED <<nodes, invs, deps, ios>>
     ELSE /\ nodes' = ns
          /\ tasks' = w.tasks
          /\ log' = w.log
          /\ deps' = w.deps
          /\ ios' = w.ios
          /\ invs' = Append(invs, NewInv(Len(ns), Str(IF tk.remote THEN tk.value ELSE tk.filePath),
                                         FALSE, t, invs[tk.inv].depth + 1, w.queue,
                                         NestedOptions(o)))
  /\ UNCHANGED <<probe, cfg, doc>>

\* a transformer that returns without awaiting its queue
CompleteEarly(i) ==
  LET p == invs[i].parent IN
  /\ invs[i].st = "awaiting"
  /\ invs' = [invs EXCEPT ![i].st = "fulfilled"]
  /\ tasks' = IF p = 0 THEN tasks
              ELSE [tasks EXCEPT ![p].st = "result", ![p].res = invs[i].tree]
  /\ UNCHANGED <<probe, cfg, doc, nodes, log, deps, ios>>

\* await Promise.all(queue) returns (or throws): the invocation settles, and
\* with it the run() promise its parent expansion waits for
Complete(i) ==
  LET outcome == PromiseAll(invs[i].queue)
      p == invs[i].parent
  IN
  /\ invs[i].st = "awaiting"
  /\ outcome # "pending"
  /\ invs' = [invs EXCEPT ![i].st = outcome]
  /\ tasks' = IF p = 0 THEN tasks
              ELSE IF outcome = "fulfilled"
              THEN [tasks EXCEPT ![p].st = "result", ![p].res = invs[i].tree]
              ELSE [tasks EXCEPT ![p].st = "thrown", ![p].err = QueueError]
  /\ UNCHANGED <<probe, cfg, doc, nodes, log, deps, ios>>

\* the node that holds the marker in its child list
SpliceTargetParent(t) ==
  LET ps == {p \in 1..Len(nodes) :
               /\ HasField(nodes[p], "children")
               /\ \E j \in 1..Len(nodes[p].children) : nodes[p].children[j] = tasks[t].node}
  IN IF ps = {} THEN tasks[t].node ELSE CHOOSE p \in ps : TRUE

\* the first element of the invocation's tree that still is a marker
SpliceTargetFirstMarker(t) ==
  LET order == PreOrder(nodes, invs[tasks[t].inv].tree)
      left == {k \in 1..Len(order) : IsMarker(invs[tasks[t].inv].options, nodes[order[k]])}
  IN IF left = {} THEN tasks[t].node
     ELSE order[CHOOSE k \in left : \A j \in left : k <= j]

\* the node the second then-callback writes: the one its visitor call was given
SpliceTarget(t) == tasks[t].node

\* a second then-callback that walks what it has just put in place
SpliceRescan(t) ==
  /\ tasks[t].st = "result"
  /\ LET ns == [nodes EXCEPT ![SpliceTarget(t)] = ObjectAssign(@, Replacement(nodes, tasks[t].res))]
         i == tasks[t].inv
         w == Walk(Acc([tasks EXCEPT ![t].st = "fulfilled"], log), ns, SpliceTarget(t), i,
                   invs[i].compiler, invs[i].options)
     IN /\ nodes' = ns
        /\ tasks' = w.tasks
        /\ log' = w.log
        /\ deps' = w.deps
        /\ ios' = w.ios
        /\ invs' = [invs EXCEPT ![i].queue = @ \o w.queue]
  /\ UNCHANGED <<probe, cfg, doc>>

\* a second then-callback that waits for the chains queued before its own, as
\* if the expansions were awaited one after the other
SpliceAfterEarlier(t) ==
  /\ tasks[t].st = "result"
  /\ \A u \in 1..(t - 1) : tasks[u].inv = tasks[t].inv => tasks[u].st = "fulfilled"
  /\ nodes' = [nodes EXCEPT ![SpliceTarget(t)] = ObjectAssign(@, Replacement(nodes, tasks[t].res))]
  /\ tasks' = [tasks EXCEPT ![t].st = "fulfilled"]
  /\ UNCHANGED <<probe, cfg, doc, invs, log, deps, ios>>

\* the second then-callback: the marker node takes the fields of its replacement
Splice(t) ==
  /\ tasks[t].st = "result"
  /\ nodes' = [nodes EXCEPT ![SpliceTarget(t)] = ObjectAssign(@, Replacement(nodes, tasks[t].res))]
  /\ tasks' = [tasks EXCEPT ![t].st = "fulfilled"]
  /\ UNCHANGED <<probe, cfg, doc, invs, log, deps, ios>>

\* a catch-callback that throws again
AfterCatchRethrow == "rejected"

\* the state the chain is left in by the catch-callback, which returns normally
AfterCatch == "fulfilled"

\* the reference as written, for local files too
SourcePathRaw(o, remote, value) == value

\* sourcePath of the catch-callback
SourcePath(o, remote, value) == IF remote THEN value ELSE pathJoin(o.snippetsDir, value)

\* a catch-callback that also puts a code block with the error in the place
\* of the marker
CatchAndReplace(t) ==
  LET tk == tasks[t]
      sourcePath == SourcePath(invs[tk.inv].options, tk.remote, tk.value)
  IN
  /\ tk.st \in {"ioFailed", "thrown"}
  /\ log' = Append(log, ReadingError(tk.node, invs[tk.inv].path, PositionOf(nodes[tk.node]),
                                     tk.remote, sourcePath, tk.err))
  /\ nodes' = [nodes EXCEPT ![tk.node] =
                 ObjectAssign(@, [type |-> "code", lang |-> Null, meta |-> Null,
                                  value |-> Str(<<"E">>)])]
  /\ tasks' = [tasks EXCEPT ![t].st = AfterCatch]
  /\ UNCHANGED <<probe, cfg, doc, invs, deps, ios>>

\* the catch-callback: one console.error for the marker, nothing else
Catch(t) ==
  LET tk == tasks[t]
      sourcePath == SourcePath(invs[tk.inv].options, tk.remote, tk.value)
  IN
  /\ tk.st \in {"ioFailed", "thrown"}
  /\ log' = Append(log, ReadingError(tk.node, invs[tk.inv].path, PositionOf(nodes[tk.node]),
                                     tk.remote, sourcePath, tk.err))
  /\ tasks' = [tasks EXCEPT ![t].st = AfterCatch]
  /\ UNCHANGED <<probe, cfg, doc, nodes, invs, deps, ios>>

Next ==
  \/ Transform
  \/ \E t \in 1..Len(tasks) : ReadSettle(t)
  \/ \E t \in 1..Len(tasks) : FetchSettle(t)
  \/ \E t \in 1..Len(tasks) : Dispatch(t)
  \/ \E i \in 1..Len(invs) : Complete(i)
  \/ \E t \in 1..Len(tasks) : Splice(t)
  \/ \E t \in 1..Len(tasks) : Catch(t)

Spec == Init /\ [][Next]_vars

(* ------------------ the extension classifier on its own ---------------- *)

\* the characters source names are made of: a dot, both separators, a letter
\* in each case
NameChars == {".", "/", "\\", "m", "D"}

Names == UNION {[1..n -> NameChars] : n \in 0..MaxName}

\* getFileExtension is called with a source name
InitExtension ==
  /\ probe \in {[filePath |-> n, extension |-> <<>>, returned |-> FALSE] : n \in Names}
  /\ cfg = Options("Snippet", "file", "none")
  /\ doc = <<>>
  /\ nodes = Parse(<<>>, TRUE, 0)
  /\ invs = <<>>
  /\ tasks = <<>>
  /\ log = <<>>
  /\ deps = <<>>
  /\ ios = <<>>

\* getFileExtension returns
Classify ==
  /\ ~probe.returned
  /\ probe' = [probe EXCEPT !.extension = getFileExtension(probe.filePath),
                           !.returned = TRUE]
  /\ UNCHANGED <<cfg, doc, nodes, invs, tasks, log, deps, ios>>

NextExtension == Classify

SpecExtension == InitExtension /\ [][NextExtension]_vars

(* ----------------------------- properties ------------------------------ *)

TaskIds == 1..Len(tasks)
InvIds == 1..Len(invs)
NodeIds == 1..Len(nodes)

Started == invs[1].st # "created"
Done == invs[1].st = "fulfilled"

ErrorsFor(n) == {k \in 1..Len(log) : log[k].level = "error" /\ log[k].node = n}
WarningsFor(n) == {k \in 1..Len(log) : log[k].level = "warn" /\ log[k].node = n}

\* the expansion of a task has reached one of its terminal outcomes
Spliced(t) == tasks[t].st = "fulfilled" /\ tasks[t].res # 0 /\ tasks[t].err = NoError
Reported(t) == tasks[t].st = "fulfilled" /\ tasks[t].err # NoError /\ ErrorsFor(tasks[t].node) # {}

\* the recursion cap of the model stops this task (the code would go on)
AtDepthCap(t) ==
  /\ tasks[t].st = "content"
  /\ isMarkdownExtension(getFileExtension(tasks[t].value))
  /\ invs[tasks[t].inv].depth >= MaxDepth

\* C1: an invocation is resolved only when every expansion it queued has
\* settled (spliced or reported), the nested invocation of each included.
C1_CompletesAfterAllSettled ==
  \A i \in InvIds :
    invs[i].st = "fulfilled" =>
      \A t \in TaskIds :
        tasks[t].inv = i =>
          /\ Spliced(t) \/ Reported(t)
          /\ tasks[t].sub # 0 => invs[tasks[t].sub].st \in {"fulfilled", "rejected"}
          /\ \E k \in 1..Len(invs[i].queue) : invs[i].queue[k] = t

C1_Witness ==
  /\ Done
  /\ Len(invs[1].queue) >= 2
  /\ \E t \in TaskIds : tasks[t].inv = 1 /\ tasks[t].sub # 0 /\ Spliced(t)
  /\ \E t \in TaskIds : tasks[t].inv = 1 /\ Reported(t)

\* no callback is pending and no invocation can settle
NothingToRun ==
  /\ Started
  /\ \A t \in TaskIds :
       /\ tasks[t].st \notin {"io", "result", "ioFailed", "thrown"}
       /\ tasks[t].st = "content" => AtDepthCap(t)
  /\ \A i \in InvIds : invs[i].st = "awaiting" => PromiseAll(invs[i].queue) = "pending"

\* C2: no invocation and no promise chain is ever rejected, whatever the
\* outcomes of the markers; when nothing is left to run the top-level
\* invocation has resolved (unless the model's recursion cap stopped a chain).
C2_NeverRejects ==
  /\ \A i \in InvIds : invs[i].st # "rejected"
  /\ \A t \in TaskIds : tasks[t].st # "rejected"
  /\ NothingToRun => (Done \/ \E t \in TaskIds : AtDepthCap(t))

C2_Witness ==
  /\ Done
  /\ \E t \in TaskIds : tasks[t].inv = 1 /\ Reported(t)
  /\ \E k \in 1..Len(log) : log[k].level = "warn"

\* what the world does with the reference of a task
ResolutionFails(t) ==
  IF tasks[t].remote
  THEN Network(tasks[t].value).kind = "error" \/ ~Network(tasks[t].value).ok
  ELSE pathJoin(snippetsDir, tasks[t].value) \notin DOMAIN FileSystem

ExpectedCause(t) ==
  IF ~tasks[t].remote
  THEN ErrorMsg("ENOENT: no such file or directory, open",
                pathJoin(snippetsDir, tasks[t].value), "", 0, "")
  ELSE IF Network(tasks[t].value).kind = "error"
  THEN ErrorMsg("Failed to fetch remote content from", tasks[t].value,
                Network(tasks[t].value).message, 0, "")
  ELSE ErrorMsg("Failed to fetch remote content from", tasks[t].value, "HTTP",
                Network(tasks[t].value).status, Network(tasks[t].value).statusText)

C3_OneErrorEntry ==
  \A t \in TaskIds :
    ResolutionFails(t) =>
      /\ Cardinality(ErrorsFor(tasks[t].node)) = (IF tasks[t].st = "fulfilled" THEN 1 ELSE 0)
      /\ WarningsFor(tasks[t].node) = {}
      /\ tasks[t].res = 0
      /\ \A k \in ErrorsFor(tasks[t].node) :
           /\ log[k].head = "Error reading snippet file:"
           /\ log[k].at = invs[tasks[t].inv].path
           /\ log[k].line = nodes[tasks[t].node].position.line
           /\ log[k].column = nodes[tasks[t].node].position.column
           /\ log[k].source = (IF tasks[t].remote THEN tasks[t].value
                               ELSE pathJoin(snippetsDir, tasks[t].value))
           /\ log[k].error = ExpectedCause(t)

C3_NodeUntouched ==
  \A t \in TaskIds : ResolutionFails(t) => nodes'[tasks[t].node] = nodes[tasks[t].node]

\* C3: a marker whose read or fetch fails gets exactly one 'Error reading
\* snippet file:' entry with the document path, its line and column, the
\* joined path or the URL and the cause, and its node is never written.
C3_ResolutionFailureReported == [](C3_OneErrorEntry) /\ [][C3_NodeUntouched]_vars

C3_Witness ==
  /\ Done
  /\ \E t \in TaskIds : ~tasks[t].remote /\ ResolutionFails(t) /\ Reported(t)
  /\ \E t \in TaskIds : tasks[t].remote /\ ResolutionFails(t) /\ Reported(t)

\* a node that is a marker element without a string file attribute
MalformedMarker(node) ==
  /\ node.type \in JsxTypes
  /\ node.name = cfg.elementName
  /\ \/ \A a \in 1..Len(node.attributes) : node.attributes[a].name # cfg.fileAttribute
     \/ \E a \in 1..Len(node.attributes) :
          /\ node.attributes[a].name = cfg.fileAttribute
          /\ \A b \in 1..(a - 1) : node.attributes[b].name # cfg.fileAttribute
          /\ node.attributes[a].value.t # "string"
WellFormedMarker(node) ==
  node.type \in JsxTypes /\ node.name = cfg.elementName /\ ~MalformedMarker(node)

HasTask(n) == \E t \in TaskIds : tasks[t].node = n

C4_OneWarning ==
  /\ \A t \in TaskIds : tasks[t].st = "io" => WellFormedMarker(nodes[tasks[t].node])
  /\ Started =>
       \A n \in NodeIds :
         /\ (MalformedMarker(nodes[n]) /\ ~HasTask(n)) =>
              /\ Cardinality(WarningsFor(n)) = 1
              /\ \A k \in WarningsFor(n) :
                   /\ log[k].head = "tag missing required attribute"
                   /\ log[k].elementName = cfg.elementName
                   /\ log[k].fileAttribute = cfg.fileAttribute
              /\ ErrorsFor(n) = {}
              /\ \A k \in 1..Len(ios) : ios[k].node # n
              /\ \A k \in 1..Len(deps) : deps[k].node # n
         /\ WellFormedMarker(nodes[n]) => HasTask(n)

C4_NodeUntouched ==
  \A n \in NodeIds : (MalformedMarker(nodes[n]) /\ ~HasTask(n)) => nodes'[n] = nodes[n]

\* C4: a marker without a string file attribute gets exactly one warning that
\* names the configured element and attribute; it is never written, read,
\* fetched or registered, and every well-formed marker is still queued.
C4_MalformedMarkerSkipped == [](C4_OneWarning) /\ [][C4_NodeUntouched]_vars

C4_Witness ==
  /\ Done
  /\ \E n \in NodeIds : MalformedMarker(nodes[n]) /\ ~HasTask(n) /\ WarningsFor(n) # {}
  /\ \E t \in TaskIds : tasks[t].inv = 1 /\ Spliced(t)

(* what a tree shows: its leaves and the elements left in it, in document order *)

Item(k, name, attrs, v, lang, meta) ==
  [k |-> k, name |-> name, attrs |-> attrs, v |-> v, lang |-> lang, meta |-> meta]

RECURSIVE Render(_, _)
RECURSIVE RenderAll(_, _, _)
Render(ns, id) ==
  LET node == ns[id]
      below == IF HasField(node, "children") THEN RenderAll(ns, node.children, 1) ELSE <<>>
  IN CASE node.type \in {"text", "html"} ->
            <<Item(node.type, "", <<>>, node.value, Null, Null)>>
       [] node.type = "code" -> <<Item("code", "", <<>>, node.value, node.lang, node.meta)>>
       [] node.type \in JsxTypes /\ node.name # NullName ->
            <<Item(node.type, node.name, node.attributes, Null, Null, Null)>> \o below
       [] OTHER -> below
RenderAll(ns, ids, i) ==
  IF i > Len(ids) THEN <<>> ELSE Render(ns, ids[i]) \o RenderAll(ns, ids, i + 1)

\* the reference of a marker block and what the world holds for it
BlockRef(b) == FindAttr(b.attrs, cfg.fileAttribute).value.s
BlockIsMarker(b) == b.k \in {"jsx", "jsxInline"} /\ b.name = cfg.elementName
BlockWellFormed(b) ==
  HasAttr(b.attrs, cfg.fileAttribute) /\ FindAttr(b.attrs, cfg.fileAttribute).value.t = "string"
BlockResolution(b) ==
  IF isRemoteFile(BlockRef(b)) THEN fetchRemoteContent(BlockRef(b))
  ELSE read(pathJoin(snippetsDir, BlockRef(b)))

\* what one marker expands to when it is expanded alone, composed over the
\* blocks of a text: the rendering the finished transform is expected to show
RECURSIVE DenoteSeq(_, _, _, _)
DenoteSeq(blocks, i, mdx, depth) ==
  IF i > Len(blocks) THEN <<>>
  ELSE
    LET b == blocks[i]
        kids == DenoteSeq(b.kids, 1, mdx, depth)
        type == IF b.k = "jsx" THEN "mdxJsxFlowElement" ELSE "mdxJsxTextElement"
        residual == <<Item(type, b.name, b.attrs, Null, Null, Null)>> \o kids
        r == BlockResolution(b)
        ext == getFileExtension(BlockRef(b))
        inner == UsesMdx(cfg, isRemoteFile(BlockRef(b)))
        code == codeBlockNode(StringAttr(b.attrs, "lang"), StringAttr(b.attrs, "meta"),
                              ext, r.content)
        this ==
          IF b.k \in {"para", "bad", "table"}
          THEN <<Item("text", "", <<>>, Str(b.text), Null, Null)>> \o kids
          ELSE IF ~mdx THEN <<Item("html", "", <<>>, Str(b.text), Null, Null)>>
          ELSE IF ~BlockIsMarker(b) \/ ~BlockWellFormed(b) THEN residual
          ELSE IF ~r.ok THEN residual
          ELSE IF ~isMarkdownExtension(ext)
          THEN <<Item("code", "", <<>>, code.value, code.lang, code.meta)>>
          ELSE IF ~Parsable(Blocks(r.content.value), inner) THEN residual
          ELSE IF depth >= MaxDepth THEN <<>>
          ELSE DenoteSeq(Blocks(r.content.value), 1, inner, depth + 1)
    IN this \o DenoteSeq(blocks, i + 1, mdx, depth)

RootChildren == nodes[invs[1].tree].children

\* C5: when the transform is done, the k-th child of the root shows what the
\* k-th block of the document expands to on its own, whatever happened to
\* the other blocks: failures do not leak, and the order is the document's.
C5_SiblingsIndependent ==
  Done =>
    /\ Len(RootChildren) = Len(doc)
    /\ \A k \in 1..Len(doc) :
         Render(nodes, RootChildren[k]) = DenoteSeq(<<doc[k]>>, 1, TRUE, 1)

C5_Witness ==
  /\ Done
  /\ Len(doc) = 2
  /\ MalformedMarker(nodes[RootChildren[1]])
  /\ \E t \in TaskIds : tasks[t].node = RootChildren[2] /\ Spliced(t)

\* the text an invocation's tree was parsed from, its grammar and its depth
InvBlocks(i) == IF i = 1 THEN doc ELSE Blocks(tasks[invs[i].parent].content.value)
InvMdx(i) == IF i = 1 THEN TRUE ELSE UsesMdx(cfg, tasks[invs[i].parent].remote)

\* C6: whatever the order in which reads, fetches and nested expansions
\* complete, a finished invocation leaves the same tree: the children of
\* its root are the nodes the parse put there, and the tree shows the
\* expansion of the text block by block.
C6_OrderIrrelevant ==
  /\ RootChildren = ParseSeq(doc, 1, TRUE, 0, 0, TRUE).ids
  /\ \A i \in InvIds :
       invs[i].st = "fulfilled" =>
         Render(nodes, invs[i].tree) = DenoteSeq(InvBlocks(i), 1, InvMdx(i), invs[i].depth)

\* the second marker's content arrived and was spliced before the first's
C6_Witness ==
  /\ Done
  /\ Len(invs[1].queue) = 2
  /\ Spliced(1) /\ Spliced(2)
  /\ tasks[2].res < tasks[1].res
  /\ tasks[1].sub # 0

\* the texts a rendering shows, in order (String(value) of each leaf)
RECURSIVE TextsOf(_, _)
TextsOf(items, i) ==
  IF i > Len(items) THEN <<>>
  ELSE (IF items[i].k \in {"text", "html", "code"} THEN <<items[i].v.s>> ELSE <<>>)
       \o TextsOf(items, i + 1)

BlockFile(b) == FileSystem[pathJoin(snippetsDir, BlockRef(b))]
\* the reference ends in ".md" or ".mdx", in any case
MarkdownRef(ref) ==
  \E e \in {<<".", "m", "d">>, <<".", "m", "d", "x">>} :
    /\ Len(ref) >= Len(e)
    /\ toLowerCase(SubSeq(ref, Len(ref) - Len(e) + 1, Len(ref))) = e
BlockIsMarkdown(b) == MarkdownRef(BlockRef(b))

\* every marker of the blocks is a well-formed local reference to a file that exists
RECURSIVE AllLocalReadable(_)
AllLocalReadable(blocks) ==
  \A i \in 1..Len(blocks) :
    /\ BlockIsMarker(blocks[i]) =>
         /\ BlockWellFormed(blocks[i])
         /\ ~isRemoteFile(BlockRef(blocks[i]))
         /\ pathJoin(snippetsDir, BlockRef(blocks[i])) \in DOMAIN FileSystem
    /\ AllLocalReadable(blocks[i].kids)

\* the same for the markers of the included texts, which also have to parse
RECURSIVE AllLocalParsable(_, _)
AllLocalParsable(blocks, depth) ==
  /\ depth <= MaxDepth
  /\ AllLocalReadable(blocks)
  /\ \A i \in 1..Len(blocks) :
       /\ (BlockIsMarker(blocks[i]) /\ BlockIsMarkdown(blocks[i])) =>
            /\ Parsable(Blocks(BlockFile(blocks[i])), TRUE)
            /\ AllLocalParsable(Blocks(BlockFile(blocks[i])), depth + 1)
       /\ AllLocalParsable(blocks[i].kids, depth)

\* the full content of the files the blocks refer to: the texts of the
\* blocks, each marker replaced by the texts of its file
RECURSIVE FullTexts(_, _, _)
FullTexts(blocks, i, depth) ==
  IF i > Len(blocks) \/ depth > MaxDepth THEN <<>>
  ELSE
    LET b == blocks[i]
        this == IF ~BlockIsMarker(b) THEN
                  (IF b.k = "para" THEN <<b.text>> ELSE <<>>) \o FullTexts(b.kids, 1, depth)
                ELSE IF BlockIsMarkdown(b) THEN FullTexts(Blocks(BlockFile(b)), 1, depth + 1)
                ELSE <<BlockFile(b)>>
    IN this \o FullTexts(blocks, i + 1, depth)

NoMarkerLeft ==
  \A k \in 1..Len(PreOrder(nodes, invs[1].tree)) :
    LET node == nodes[PreOrder(nodes, invs[1].tree)[k]]
    IN ~(node.type \in JsxTypes /\ node.name = cfg.elementName)

\* the markers of the document tree that are inside another marker element
InsideMarker(n) ==
  LET first == Parse(doc, TRUE, 0) IN
  \E m \in 1..Len(first) :
    /\ m # n
    /\ first[m].type \in JsxTypes /\ first[m].name = cfg.elementName
    /\ \E k \in 1..Len(PreOrder(first, m)) : PreOrder(first, m)[k] = n

\* the block the k-th child of the root was parsed from shows the full
\* content of its files, for the markers at the top of the document
ShowsFullContent(k) ==
  TextsOf(Render(nodes, RootChildren[k]), 1) = FullTexts(<<doc[k]>>, 1, 1)

\* the node of every marker of the document tree is still in the tree
EveryMarkerInPlace ==
  \A t \in TaskIds :
    tasks[t].inv = 1 =>
      \E k \in 1..Len(PreOrder(nodes, invs[1].tree)) :
        PreOrder(nodes, invs[1].tree)[k] = tasks[t].node

\* C7 as claimed: readable local files are enough
C7_Original ==
  (Done /\ AllLocalReadable(doc)) =>
    /\ NoMarkerLeft
    /\ \A k \in 1..Len(doc) : ShowsFullContent(k)
    /\ EveryMarkerInPlace

\* C7, amended: when every marker, in the document and in the included
\* texts, is a well-formed local reference to a readable file that the MDX
\* grammar parses, the finished tree has no marker element left and shows,
\* at the place of each marker that is not inside another marker, the full
\* content of its file.
C7_LocalContentIncluded ==
  (Done /\ AllLocalParsable(doc, 1)) =>
    /\ NoMarkerLeft
    /\ \A k \in 1..Len(doc) : ShowsFullContent(k)
    /\ \A t \in TaskIds :
         (tasks[t].inv = 1 /\ ~InsideMarker(tasks[t].node)) =>
           \E k \in 1..Len(PreOrder(nodes, invs[1].tree)) :
             PreOrder(nodes, invs[1].tree)[k] = tasks[t].node

C7_Witness ==
  /\ Done
  /\ AllLocalParsable(doc, 1)
  /\ Len(doc) = 2
  /\ \E t \in TaskIds : tasks[t].inv = 1 /\ tasks[t].sub # 0 /\ invs[tasks[t].sub].queue # <<>>
  /\ \E t \in TaskIds : tasks[t].inv = 1 /\ tasks[t].sub = 0 /\ Spliced(t)

\* the document is one marker, under the default names
OneMarker(ref) ==
  cfg.elementName = "Snippet" /\ cfg.fileAttribute = "file" /\ doc = <<Marker(ref)>>

Shows(text) ==
  \E k \in 1..Len(TextsOf(Render(nodes, RootChildren[1]), 1)) :
    TextsOf(Render(nodes, RootChildren[1]), 1)[k] = text

\* C8: a marker A whose markdown source holds a marker B ends up showing
\* the content of B's source, for A and B local or remote, with or without
\* options.processor.
C8_NestingTransitive ==
  Done =>
    /\ (OneMarker(RefN) \/ OneMarker(UrlR)) =>
         (Shows(<<"B", "1">>) /\ NoMarkerLeft /\ ~Shows(<<"<", ">">>))
    /\ (OneMarker(RefM) \/ OneMarker(UrlQ)) =>
         (Shows(TextPy) /\ NoMarkerLeft /\ ~Shows(<<"<", ">">>))

NewCodeNodes == {n \in (Len(nodes) + 1)..Len(nodes') : nodes'[n].type = "code"}

C9_Dispatch ==
  \A t \in TaskIds :
    (tasks[t].st = "content" /\ tasks'[t].st # "content") =>
      IF MarkdownRef(tasks[t].value)
      THEN /\ NewCodeNodes = {}
           /\ tasks'[t].st \in {"running", "thrown"}
           /\ tasks'[t].st = "running" =>
                /\ tasks'[t].sub = Len(invs')
                /\ Len(invs') = Len(invs) + 1
                /\ nodes'[invs'[Len(invs')].tree].type = "root"
                /\ invs'[Len(invs')].tree > Len(nodes)
      ELSE /\ Cardinality(NewCodeNodes) = 1
           /\ tasks'[t].st = "result"
           /\ Len(nodes'[tasks'[t].res].children) = 1
           /\ nodes'[tasks'[t].res].children[1] \in NewCodeNodes
           /\ invs' = invs

\* C9: the first then-callback parses the content and starts the nested
\* invocation, making no code node, exactly when the reference ends in
\* .md or .mdx in any case; for every other reference, local or URL, it
\* makes exactly one code node, the only child of its result.
C9_ExtensionDispatch == [][C9_Dispatch]_vars

C9_Witness ==
  /\ Done
  /\ \E t \in TaskIds : tasks[t].value = RefUp /\ Spliced(t) /\ tasks[t].sub # 0

\* C10: the code node has the marker's lang if it has one (a string), else
\* the extension, else null, and the marker's meta if it has one, else null.
C10_LangAndMeta ==
  \A t \in TaskIds :
    (tasks[t].st = "result" /\ tasks[t].sub = 0) =>
      LET code == nodes[nodes[tasks[t].res].children[1]]
          attributes == nodes[tasks[t].node].attributes
          extension == getFileExtension(tasks[t].value)
          supplied(name) == \E a \in 1..Len(attributes) :
                              attributes[a].name = name /\ attributes[a].value.t = "string"
      IN /\ code.lang = (IF supplied("lang") THEN FindAttr(attributes, "lang").value
                         ELSE IF extension # <<>> THEN Str(extension) ELSE Null)
         /\ code.meta = (IF supplied("meta") THEN FindAttr(attributes, "meta").value ELSE Null)

\* C11: the code node made for a reference that is not markdown has the resolved
\* text as its value, a string, whatever the text is (the empty text too).
C11_RawTextVerbatim ==
  \A t \in TaskIds :
    (tasks[t].st = "result" /\ tasks[t].sub = 0) =>
      nodes[nodes[tasks[t].res].children[1]].value = Str(tasks[t].content.value)

\* the nodes a step walks: the document tree when the transformer is called,
\* the freshly parsed nodes when included content is dispatched
WalkedNodes ==
  IF invs[1].st = "created" /\ invs'[1].st # "created"
  THEN 1..Len(nodes)
  ELSE (Len(nodes) + 1)..Len(nodes')

NewTaskIds == (Len(tasks) + 1)..Len(tasks')
NewLogIds == (Len(log) + 1)..Len(log')
NewIoIds == (Len(ios) + 1)..Len(ios')
NewDepIds == (Len(deps) + 1)..Len(deps')

\* a JSX element, flow or inline, that carries the configured element name
NamedAsConfigured(node) == node.type \in JsxTypes /\ node.name = cfg.elementName

C12_Step ==
  /\ \A t \in NewTaskIds :
       LET node == nodes'[tasks'[t].node] IN
       /\ tasks'[t].node \in WalkedNodes
       /\ NamedAsConfigured(node)
       /\ HasAttr(node.attributes, cfg.fileAttribute)
       /\ FindAttr(node.attributes, cfg.fileAttribute).value = Str(tasks'[t].value)
  /\ \A n \in WalkedNodes :
       IF NamedAsConfigured(nodes'[n])
       THEN \/ Cardinality({t \in NewTaskIds : tasks'[t].node = n}) = 1
            \/ /\ \A t \in NewTaskIds : tasks'[t].node # n
               /\ \E k \in NewLogIds : log'[k].node = n /\ log'[k].level = "warn"
       ELSE /\ \A t \in NewTaskIds : tasks'[t].node # n
            /\ \A k \in NewLogIds : log'[k].node # n
            /\ \A k \in NewIoIds : ios'[k].node # n
            /\ \A k \in NewDepIds : deps'[k].node # n
  /\ \A n \in NodeIds : nodes'[n] # nodes[n] => \E t \in TaskIds : tasks[t].node = n
  /\ \A k \in NewLogIds : \/ log'[k].node \in WalkedNodes
                          \/ \E t \in TaskIds : tasks[t].node = log'[k].node

\* C12: a walk queues exactly the JSX elements (flow or inline) named
\* elementName, with the reference taken from the attribute named
\* fileAttribute; an element of any other name, 'Snippet' included when
\* elementName is something else, gets no read, fetch, dependency, diagnostic
\* or write.
C12_MarkerRecognition == [][C12_Step]_vars

C12_Witness ==
  /\ Done
  /\ cfg.elementName = "CodeSnippet"
  /\ doc = <<Jsx("CodeSnippet", <<Attr("source", Str(RefG))>>, <<>>)>>
  /\ Len(tasks) = 2
  /\ \A t \in TaskIds : Spliced(t)
  /\ \E n \in NodeIds : nodes[n].type \in JsxTypes /\ nodes[n].name = "Snippet"
  /\ log = <<>>

\* the fetch of a task's URL fails: a transport error, or a status that is not 2xx
FetchFails(t) ==
  /\ tasks[t].remote
  /\ Network(tasks[t].value).kind = "error" \/ ~Network(tasks[t].value).ok

\* C13: a marker whose fetch failed has, once its chain has settled, exactly
\* one error entry; the entry's error is 'Failed to fetch remote content from
\* <url>' with the cause 'HTTP <status>: <statusText>' for a response that is
\* not ok and the message of the thrown error for a transport error, and its
\* source line is 'Remote URL: <url>', the URL as written and not joined with
\* snippetsDir.
C13_FetchFailureCause ==
  \A t \in TaskIds :
    (FetchFails(t) /\ tasks[t].st = "fulfilled") =>
      LET response == Network(tasks[t].value) IN
      /\ Cardinality(ErrorsFor(tasks[t].node)) = 1
      /\ \A k \in ErrorsFor(tasks[t].node) :
           /\ log[k].label = "Remote URL"
           /\ log[k].source = tasks[t].value
           /\ log[k].source # pathJoin(cfg.snippetsDir, tasks[t].value)
           /\ log[k].error.text = "Failed to fetch remote content from"
           /\ log[k].error.arg = tasks[t].value
           /\ IF response.kind = "error"
              THEN /\ log[k].error.cause = response.message
                   /\ log[k].error.status = 0
              ELSE /\ log[k].error.cause = "HTTP"
                   /\ log[k].error.status = response.status
                   /\ log[k].error.statusText = response.statusText
      /\ tasks[t].inv = 1 =>
           \E b \in 1..Len(doc) :
             /\ HasAttr(doc[b].attrs, cfg.fileAttribute)
             /\ FindAttr(doc[b].attrs, cfg.fileAttribute).value = Str(tasks[t].value)

C13_Witness ==
  /\ Done
  /\ doc = <<Marker(Url404), Marker(UrlNet)>>
  /\ Len(log) = 2
  /\ \E k \in 1..Len(log) : log[k].error.cause = "HTTP" /\ log[k].error.status = 404
  /\ \E k \in 1..Len(log) : log[k].error.cause = "Network error"

\* C14: with a dependency tracker in the document's file context, the path of
\* every local reference the transform resolves, in the document and in
\* included content at any depth, is registered with addDependency, and no
\* URL is.
C14_DependenciesRegistered ==
  invs[1].compiler =>
    /\ \A t \in TaskIds :
         ~tasks[t].remote =>
           \E k \in 1..Len(deps) : deps[k].path = tasks[t].filePath
    /\ \A k \in 1..Len(deps) : ~isRemoteFile(deps[k].path)

\* the tree the caller hands to the transformer
OrigTree == Parse(doc, TRUE, 0)

OrigMarker(n) == OrigTree[n].type \in JsxTypes /\ OrigTree[n].name = cfg.elementName

\* node n of the caller's tree has the fields it came with
KeepsFields(n) == nodes[n] = OrigTree[n]

\* node n is still where it was: every node that had it as its j-th child
\* still has it as its j-th child
KeepsSlot(n) ==
  \A p \in 1..Len(OrigTree) :
    HasField(OrigTree[p], "children") =>
      \A j \in 1..Len(OrigTree[p].children) :
        OrigTree[p].children[j] = n =>
          /\ HasField(nodes[p], "children")
          /\ j <= Len(nodes[p].children)
          /\ nodes[p].children[j] = n

\* the transformer works on the tree object it was given
SameTreeObject == invs[1].tree = Len(OrigTree) /\ nodes[invs[1].tree].type = "root"

\* C15 as stated: every node that is not a marker keeps its fields, its
\* parent and its place among its siblings.
C15_Original ==
  /\ SameTreeObject
  /\ \A n \in 1..Len(OrigTree) : ~OrigMarker(n) => (KeepsFields(n) /\ KeepsSlot(n))

\* C15: the transformer works on the caller's tree object; every node of it
\* that is neither a marker nor inside a marker element keeps its fields, its
\* parent and its place among its siblings, and every marker that is not
\* inside a marker element keeps its slot in its parent's child list.
C15_InPlace ==
  LET orig == OrigTree
      markers == {m \in 1..Len(orig) :
                    orig[m].type \in JsxTypes /\ orig[m].name = cfg.elementName}
      below(m) == LET order == PreOrder(orig, m) IN {order[k] : k \in 2..Len(order)}
      inside == UNION {below(m) : m \in markers}
  IN
  /\ SameTreeObject
  /\ \A n \in (1..Len(orig)) \ (inside \cup markers) : nodes[n] = orig[n]
  /\ \A p \in 1..Len(orig) :
       HasField(orig[p], "children") =>
         \A j \in 1..Len(orig[p].children) :
           orig[p].children[j] \notin inside =>
             /\ HasField(nodes[p], "children")
             /\ j <= Len(nodes[p].children)
             /\ nodes[p].children[j] = orig[p].children[j]

C15_Witness ==
  /\ Done
  /\ doc = <<Para(<<"P">>), Marker(RefN)>>
  /\ \A t \in TaskIds : Spliced(t)
  /\ Len(tasks) = 2
  /\ ~KeepsFields(3)

\* the nodes a step writes
Written == {n \in NodeIds : nodes'[n] # nodes[n]}

\* the chains whose second then-callback runs in a step
Splicing == {t \in TaskIds : tasks[t].st = "result" /\ tasks'[t].st = "fulfilled"}

C16_OwnNodeOnly ==
  /\ \A t \in Splicing : Written \subseteq {tasks[t].node}
  /\ Splicing = {} => Written = {}
  /\ \A t \in Splicing :
       \A u \in TaskIds :
         (u # t /\ tasks[u].st = "fulfilled" /\ tasks[u].res # 0) =>
           tasks[u].node # tasks[t].node

C16_DistinctNodes ==
  \A t, u \in TaskIds : t # u => tasks[t].node # tasks[u].node

\* C16: the second then-callback of a chain writes the node its visitor call
\* was given and no other, and no two chains have the same node, also when a
\* marker element lies inside another marker element.
C16_DisjointWrites == [](C16_DistinctNodes) /\ [][C16_OwnNodeOnly]_vars

C16_Witness ==
  /\ Done
  /\ doc = <<Jsx("Snippet", <<Attr("file", Str(RefA))>>, <<Marker(RefB)>>)>>
  /\ Len(tasks) = 2
  /\ \A t \in TaskIds : Spliced(t)
  /\ tasks[1].node # tasks[2].node

\* a step in which a transformer is called and walks its tree
WalkStep == Len(invs') > Len(invs) \/ (invs[1].st = "created" /\ invs'[1].st # "created")

\* the invocation that walks in a walk step
Walking == IF Len(invs') > Len(invs) THEN Len(invs') ELSE 1

C17_Walk ==
  LET launched == {n \in WalkedNodes : WellFormedMarker(nodes'[n])} IN
  IF WalkStep
  THEN /\ \A n \in launched :
            LET ref == FindAttr(nodes'[n].attributes, cfg.fileAttribute).value.s IN
            \E k \in NewIoIds :
              /\ ios'[k].node = n
              /\ ios'[k].inv = Walking
              /\ ios'[k].kind = (IF isRemoteFile(ref) THEN "fetch" ELSE "read")
       /\ Cardinality(NewIoIds) = Cardinality(launched)
       /\ Cardinality(NewTaskIds) = Cardinality(launched)
       /\ \A t \in NewTaskIds : tasks'[t].st = "io" /\ tasks'[t].inv = Walking
       /\ \A t \in TaskIds : tasks[t].inv # Walking
       /\ \A n \in NodeIds : nodes'[n] = nodes[n]
       /\ Walking # 1 =>
            LET p == invs'[Walking].parent IN
            [n \in 1..(Len(nodes') - Len(nodes)) |-> nodes'[Len(nodes) + n]] =
              Parse(IF tasks[p].remote /\ cfg.processor = "none"
                    THEN Plain(Blocks(tasks[p].content.value))
                    ELSE Blocks(tasks[p].content.value),
                    UsesMdx(cfg, tasks[p].remote), Len(nodes))
  ELSE NewIoIds = {} /\ NewTaskIds = {}

C17_LaunchedBeforeSplice ==
  \A t \in TaskIds :
    /\ tasks[t].inv \in InvIds
    /\ invs[tasks[t].inv].st # "created"
    /\ \E k \in 1..Len(ios) : ios[k].node = tasks[t].node /\ ios[k].inv = tasks[t].inv
    /\ \A u \in TaskIds :
         (tasks[u].inv = tasks[t].inv /\ tasks[t].st \in {"result", "fulfilled"}) =>
           \E k \in 1..Len(ios) : ios[k].node = tasks[u].node

\* C17: the walk of an invocation issues the read or fetch of every
\* well-formed marker of its tree in one synchronous pass that leaves every
\* node as it was, before any chain of the invocation goes on; a splice of the
\* invocation finds every expansion of it launched.
C17_AllLaunchedInWalk == [](C17_LaunchedBeforeSplice) /\ [][C17_Walk]_vars

C17_Witness ==
  /\ doc = <<Marker(RefA), Marker(Url404)>>
  /\ Len(ios) = 2
  /\ ios[1].kind = "read" /\ ios[2].kind = "fetch"
  /\ tasks[1].st = "fulfilled" /\ tasks[1].res # 0
  /\ tasks[2].st = "io"

\* the invocation whose tree node n was parsed for: trees are built one after
\* the other, so it is the one with the nearest root at or after n
Owner(n) ==
  CHOOSE i \in InvIds :
    /\ invs[i].tree >= n
    /\ \A j \in InvIds : invs[j].tree >= n => invs[i].tree <= invs[j].tree

C18_OwnTreeOnly == \A t \in TaskIds : tasks[t].inv = Owner(tasks[t].node)

C18_Step ==
  /\ \A t \in NewTaskIds :
       /\ WalkStep
       /\ tasks'[t].inv = Walking
       /\ tasks'[t].node \in WalkedNodes
  /\ \A i \in InvIds : invs[i].st # "created" => invs'[i].queue = invs[i].queue

\* C18: an expansion is queued only by the walk of the invocation whose tree
\* its marker was parsed into: the markers of included content by the
\* recursive invocation on that content, the markers of the caller's tree by
\* the walk made when the transformer was called; after its walk an invocation
\* queues nothing, whatever has been spliced into its tree.
C18_InnerInvocationExpands == [](C18_OwnTreeOnly) /\ [][C18_Step]_vars

C18_Witness ==
  /\ Done
  /\ doc = <<Marker(RefO)>>
  /\ Len(tasks) = 2
  /\ Spliced(1)
  /\ tasks[2].inv = 2 /\ Reported(2)
  /\ \E n \in NodeIds : n > Len(OrigTree) /\ NamedAsConfigured(nodes[n])

\* the chain of task u has ended, in a splice or in a report
Settled(u) == Spliced(u) \/ Reported(u)

\* C19: when the result of a markdown expansion is there to be spliced (and
\* after), the recursive invocation on the included tree is resolved, every
\* chain it queued has ended, and every element of the replacement content
\* that still looks like a marker belongs to a chain that has ended.
C19_NestedSettledBeforeSplice ==
  \A t \in TaskIds :
    (tasks[t].sub # 0 /\ tasks[t].st \in {"result", "fulfilled"} /\ tasks[t].res # 0) =>
      LET i == tasks[t].sub
          content == PreOrder(nodes, tasks[t].res)
      IN
      /\ invs[i].st = "fulfilled"
      /\ tasks[t].res = invs[i].tree
      /\ \A u \in TaskIds : tasks[u].inv = i => Settled(u)
      /\ tasks[t].st = "result" =>
           \A k \in 1..Len(content) :
             WellFormedMarker(nodes[content[k]]) =>
               \E u \in TaskIds : tasks[u].node = content[k] /\ Settled(u)

C19_Witness ==
  /\ doc = <<Marker(RefO)>>
  /\ Len(tasks) = 2
  /\ tasks[1].st = "result"
  /\ tasks[1].sub = 2
  /\ Reported(2)
  /\ \E k \in 1..Len(PreOrder(nodes, tasks[1].res)) :
       WellFormedMarker(nodes[PreOrder(nodes, tasks[1].res)[k]])

\* C20: every invocation, nested at any depth and started from the local or
\* a remote branch, has the snippetsDir, fileAttribute, elementName and
\* processor of the top-level one, and every local reference, in the document
\* or in included content, is joined with that snippetsDir, whatever the path
\* or URL of the including source.
C20_SameConfigEverywhere ==
  /\ \A i \in InvIds : invs[i].options = cfg
  /\ \A t \in TaskIds :
       ~tasks[t].remote =>
         /\ tasks[t].filePath = pathJoin(cfg.snippetsDir, tasks[t].value)
         /\ \E k \in 1..Len(ios) :
              /\ ios[k].node = tasks[t].node
              /\ ios[k].kind = "read"
              /\ ios[k].target = pathJoin(cfg.snippetsDir, tasks[t].value)
  /\ \A t \in TaskIds :
       (~tasks[t].remote /\ tasks[t].st = "fulfilled" /\ tasks[t].err # NoError) =>
         \A k \in ErrorsFor(tasks[t].node) :
           log[k].source = pathJoin(cfg.snippetsDir, tasks[t].value)

C20_Witness ==
  /\ Done
  /\ doc = <<Marker(RefSub)>>
  /\ Len(tasks) = 2
  /\ invs[2].path = Str(<<"/", "s", "/", "t", "/", "i", ".", "m", "d">>)
  /\ tasks[2].inv = 2
  /\ tasks[2].value = RefB
  /\ tasks[2].filePath = <<"/", "s", "/", "b", ".", "m", "d", "x">>
  /\ Spliced(2)

\* the lower-case form of a character of NameChars
LowerOf(c) == IF c = "D" THEN "d" ELSE c

\* what the classifier is to return for a source name: the text after the
\* last dot, lower-cased, if no separator comes after that dot; else nothing
ExpectedExtension(s) ==
  LET dots == {i \in 1..Len(s) : s[i] = "."}
      seps == {i \in 1..Len(s) : s[i] = "/" \/ s[i] = "\\"}
  IN IF dots = {} THEN <<>>
     ELSE LET d == CHOOSE i \in dots : \A j \in dots : j <= i IN
          IF \E p \in seps : p > d THEN <<>>
          ELSE [k \in 1..(Len(s) - d) |-> LowerOf(s[d + k])]

\* C21: for every source name, getFileExtension returns the lower-cased text
\* after the last '.' when that dot comes after the last '/' or '\', and the
\* empty string when the name has no dot or its last dot comes before the
\* last separator; the result depends on the name only.
C21_ExtensionClassifier ==
  probe.returned =>
    /\ probe.extension = ExpectedExtension(probe.filePath)
    /\ probe.extension = getFileExtension(probe.filePath)

C21_Witness ==
  /\ probe.returned
  /\ probe.filePath = <<".", "/", "D">>
  /\ probe.extension = <<>>

\* the nodes of the result a chain is about to splice
ResultChildren(t) == nodes[tasks[t].res].children

C22_Step ==
  \A t \in Splicing :
    Len(ResultChildren(t)) = 1 =>
      LET n == tasks[t].node
          single == nodes[ResultChildren(t)[1]]
      IN /\ DOMAIN nodes'[n] = DOMAIN single
         /\ \A f \in DOMAIN single : nodes'[n][f] = single[f]
         /\ \A p \in NodeIds :
              (p # n /\ HasField(nodes[p], "children")) => nodes'[p].children = nodes[p].children

\* C22: a splice of exactly one node leaves the marker node with the fields of
\* that node and no others (its own name and attribute list are gone), in the
\* same slot of its parent's child list.
C22_SingleNodeOverwrite == [][C22_Step]_vars

C23_Step ==
  \A t \in Splicing :
    Len(ResultChildren(t)) # 1 =>
      LET n == tasks[t].node IN
      /\ nodes[n].type \in JsxTypes
      /\ nodes'[n].type = "mdxJsxFlowElement"
      /\ nodes'[n].name = NullName
      /\ nodes'[n].attributes = <<>>
      /\ nodes'[n].children = ResultChildren(t)
      /\ \A k \in 1..Len(ResultChildren(t)) :
           nodes'[ResultChildren(t)[k]] = nodes[ResultChildren(t)[k]]

\* C23: a splice of no node or of several nodes turns the marker node, flow
\* or inline, into a flow element with name null and no attributes whose
\* children are the nodes of the result, in the result's order (none for an
\* empty result).
C23_FragmentContainer == [][C23_Step]_vars

\* an inline marker that has become a fragment of two paragraphs
C23_Witness ==
  /\ Done
  /\ doc = <<ParaWith(<<"P">>, <<JsxInline("Snippet", <<Attr("file", Str(RefA))>>)>>)>>
  /\ Len(tasks) = 1
  /\ Spliced(1)
  /\ nodes[tasks[1].node].type = "mdxJsxFlowElement"
  /\ nodes[tasks[1].node].name = NullName
  /\ Len(nodes[tasks[1].node].children) = 2

\* the reference begins with 'http://' or 'https://'
BeginsWithHttp(ref) ==
  \E p \in {<<"h", "t", "t", "p", ":", "/", "/">>, <<"h", "t", "t", "p", "s", ":", "/", "/">>} :
    /\ Len(ref) >= Len(p)
    /\ \A i \in 1..Len(p) : ref[i] = p[i]

\* the reads and fetches issued for the marker of task t
IosOf(t) == {k \in 1..Len(ios) : ios[k].node = tasks[t].node /\ ios[k].inv = tasks[t].inv}

\* C24: a marker whose reference begins with 'http://' or 'https://' gets
\* one fetch of the reference as written and no read; every other marker gets
\* one read of snippetsDir joined with the reference and no fetch; the content
\* of the chain comes from that fetch or read.
C24_ResolutionStrategy ==
  \A t \in TaskIds :
    /\ Cardinality(IosOf(t)) = 1
    /\ tasks[t].remote = BeginsWithHttp(tasks[t].value)
    /\ \A k \in IosOf(t) :
         IF BeginsWithHttp(tasks[t].value)
         THEN ios[k].kind = "fetch" /\ ios[k].target = tasks[t].value
         ELSE ios[k].kind = "read" /\ ios[k].target = pathJoin(cfg.snippetsDir, tasks[t].value)
    /\ tasks[t].content # NoContent =>
         IF BeginsWithHttp(tasks[t].value)
         THEN tasks[t].content = [isVFile |-> FALSE, value |-> Network(tasks[t].value).text,
                                  path |-> tasks[t].value]
         ELSE tasks[t].content =
                [isVFile |-> TRUE,
                 value |-> FileSystem[pathJoin(cfg.snippetsDir, tasks[t].value)],
                 path |-> pathJoin(cfg.snippetsDir, tasks[t].value)]

C24_Witness ==
  /\ Done
  /\ doc = <<Marker(RefM)>>
  /\ Len(tasks) = 2 /\ Len(ios) = 2
  /\ ios[1].kind = "read" /\ ios[1].target = <<"/", "s", "/", "m", ".", "m", "d">>
  /\ ios[2].kind = "fetch" /\ ios[2].target = UrlPy
  /\ Spliced(1) /\ Spliced(2)

\* what is read or fetched for a reference: the URL itself, or the joined path
TargetOf(ref) == IF BeginsWithHttp(ref) THEN ref ELSE pathJoin(cfg.snippetsDir, ref)

\* the targets read or fetched so far, and after the step
Targets == {ios[k].target : k \in 1..Len(ios)}
NewTargets == {ios'[k].target : k \in NewIoIds}

\* the well-formed markers a walk step visits
VisitedMarkers == {n \in WalkedNodes : WellFormedMarker(nodes'[n])}

RefOfMarker(n) == FindAttr(nodes'[n].attributes, cfg.fileAttribute).value.s

C25_Step ==
  IF WalkStep
  THEN /\ \A n \in VisitedMarkers :
            Cardinality({k \in NewIoIds : ios'[k].target = TargetOf(RefOfMarker(n))}) =
              Cardinality({m \in VisitedMarkers : TargetOf(RefOfMarker(m)) = TargetOf(RefOfMarker(n))})
       /\ NewTargets = {TargetOf(RefOfMarker(n)) : n \in VisitedMarkers}
       /\ \A k \in 1..Len(ios) : ios'[k] = ios[k]
  ELSE ios' = ios

C25_Totals ==
  \A p \in Targets :
    Cardinality({k \in 1..Len(ios) : ios[k].target = p}) =
      Cardinality({t \in TaskIds : TargetOf(tasks[t].value) = p})

\* C25: every walk, of the document or of included content, issues for each
\* reference as many reads or fetches as it visits well-formed markers carrying
\* it, whatever was read or fetched before; over the whole transform the reads
\* and fetches of a target are as many as the markers queued for it.
C25_NoCaching == [](C25_Totals) /\ [][C25_Step]_vars

C25_Witness ==
  /\ Done
  /\ doc = <<Marker(RefB), Marker(RefN)>>
  /\ Len(tasks) = 3
  /\ \A t \in TaskIds : Spliced(t)
  /\ tasks[1].inv = 1 /\ tasks[3].inv # 1
  /\ tasks[1].value = RefB /\ tasks[3].value = RefB
  /\ Cardinality({k \in 1..Len(ios) : ios[k].target = pathJoin(cfg.snippetsDir, RefB)}) = 2

\* the fallback warnings logged for node n
FallbackWarningsFor(n) ==
  {k \in 1..Len(log) : /\ log[k].level = "warn"
                       /\ log[k].head = "GFM processing failed, falling back to basic markdown:"
                       /\ log[k].node = n}

\* the content of a remote markdown reference has been dispatched
RemoteMarkdownDispatched(t) ==
  /\ BeginsWithHttp(tasks[t].value)
  /\ MarkdownRef(tasks[t].value)
  /\ tasks[t].content # NoContent
  /\ tasks[t].st \notin {"io", "ioFailed", "content"}

\* the minimal processor can parse the content: without options.processor it
\* is plain markdown, which accepts every text
MinimalParses(t) ==
  LET RECURSIVE ok(_)
      ok(blocks) == \A i \in 1..Len(blocks) : blocks[i].k # "bad" /\ ok(blocks[i].kids)
  IN cfg.processor = "none" \/ ok(Blocks(tasks[t].content.value))

C26_State ==
  \A t \in TaskIds :
    RemoteMarkdownDispatched(t) =>
      /\ Cardinality(FallbackWarningsFor(tasks[t].node)) = 1
      /\ invs[tasks[t].inv].st # "rejected"
      /\ IF MinimalParses(t)
         THEN /\ tasks[t].st \in {"running", "result", "fulfilled"}
              /\ tasks[t].err = NoError
              /\ ErrorsFor(tasks[t].node) = {}
              /\ tasks[t].sub # 0
              /\ tasks[t].st = "fulfilled" => Spliced(t)
         ELSE /\ tasks[t].st \in {"thrown", "fulfilled"}
              /\ tasks[t].sub = 0 /\ tasks[t].res = 0
              /\ WellFormedMarker(nodes[tasks[t].node])
              /\ tasks[t].st = "fulfilled" => Cardinality(ErrorsFor(tasks[t].node)) = 1

C26_Step ==
  \A t \in TaskIds :
    (tasks[t].st = "content" /\ tasks'[t].st # "content" /\ BeginsWithHttp(tasks[t].value)
       /\ MarkdownRef(tasks[t].value)) =>
      /\ log'[Len(log) + 1].level = "warn"
      /\ log'[Len(log) + 1].node = tasks[t].node
      /\ \A k \in NewLogIds : log'[k].node = tasks[t].node => k = Len(log) + 1
      /\ cfg.processor = "none" =>
           [n \in 1..(Len(nodes') - Len(nodes)) |-> nodes'[Len(nodes) + n]] =
             Parse(Plain(Blocks(tasks[t].content.value)), FALSE, Len(nodes))
      /\ tasks'[t].st = "thrown" => nodes' = nodes

\* C26: once the content of a remote markdown reference is dispatched, its
\* marker has one fallback warning and the invocation is not rejected; if the
\* minimal processor parses the content the chain goes on without an error,
\* the included tree is the minimal processor's and the marker is spliced;
\* an error is logged for the marker, which stays as it was, only when the
\* minimal processor fails too.
C26_FallbackNeverRaises == [](C26_State) /\ [][C26_Step]_vars

C26_Witness ==
  /\ Done
  /\ doc = <<Marker(UrlR), Marker(UrlK)>>
  /\ cfg.processor = "mdx"
  /\ Len(tasks) = 3
  /\ Spliced(1) /\ Cardinality(FallbackWarningsFor(tasks[1].node)) = 1
  /\ ErrorsFor(tasks[1].node) = {}
  /\ Reported(2) /\ Cardinality(FallbackWarningsFor(tasks[2].node)) = 1
  /\ WellFormedMarker(nodes[tasks[2].node])

\* the richer processor (remark-gfm, with the grammar options.processor has)
\* can parse the content
RicherParses(t) ==
  LET RECURSIVE ok(_)
      ok(blocks) == \A i \in 1..Len(blocks) : blocks[i].k # "bad" /\ ok(blocks[i].kids)
  IN cfg.processor = "none" \/ ok(Blocks(tasks[t].content.value))

C27_Step ==
  \A t \in TaskIds :
    (tasks[t].st = "content" /\ tasks'[t].st # "content" /\ BeginsWithHttp(tasks[t].value)
       /\ MarkdownRef(tasks[t].value) /\ RicherParses(t)) =>
      /\ [n \in 1..(Len(nodes') - Len(nodes)) |-> nodes'[Len(nodes) + n]] =
           Parse(Blocks(tasks[t].content.value), cfg.processor = "mdx", Len(nodes))
      /\ \A k \in NewLogIds : log'[k].node # tasks[t].node

\* C27: remote markdown content that the richer processor can parse is
\* included as the richer processor parses it (a table is a table) and its
\* marker gets no fallback warning; a marker has a fallback warning only if
\* the richer processor cannot parse its content.
C27_RicherGrammarUsed ==
  /\ [](\A t \in TaskIds :
          (RemoteMarkdownDispatched(t) /\ FallbackWarningsFor(tasks[t].node) # {}) =>
            ~RicherParses(t))
  /\ [][C27_Step]_vars

(* ------------- a transform with a read or fetch that hangs ------------- *)

\* the promise of read(filePath) or fetch(url) for this reference stays pending
Hangs(value) == value \in {RefHang, UrlHang}

\* documents with one marker whose I/O hangs and one other block, in both orders
HungDocs ==
  UNION {{<<h, b>>, <<b, h>>} :
           h \in {Marker(RefHang), Marker(UrlHang)},
           b \in CoreBlocks \cup {Marker(UrlPy), Marker(UrlR)}}

\* the setups in which the markers of these documents are markers
HungSetups == {setup \in Setups : setup.options.elementName = "Snippet"}

HungInit ==
  \E setup \in HungSetups, d \in HungDocs :
    /\ cfg = setup.options
    /\ doc = d
    /\ nodes = Parse(d, TRUE, 0)
    /\ invs = <<[tree |-> Len(Parse(d, TRUE, 0)), path |-> setup.path,
                 compiler |-> setup.compiler, st |-> "created", queue |-> <<>>,
                 parent |-> 0, depth |-> 1, options |-> setup.options]>>
    /\ tasks = <<>>
    /\ log = <<>>
    /\ deps = <<>>
    /\ ios = <<>>
    /\ probe = NoProbe

\* a read or fetch settles only if it is not one that hangs
HungReadSettle(t) == ~Hangs(tasks[t].value) /\ ReadSettle(t)
HungFetchSettle(t) == ~Hangs(tasks[t].value) /\ FetchSettle(t)

HungNext ==
  \/ Transform
  \/ \E t \in 1..Len(tasks) : HungReadSettle(t)
  \/ \E t \in 1..Len(tasks) : HungFetchSettle(t)
  \/ \E t \in 1..Len(tasks) : Dispatch(t)
  \/ \E i \in 1..Len(invs) : Complete(i)
  \/ \E t \in 1..Len(tasks) : Splice(t)
  \/ \E t \in 1..Len(tasks) : Catch(t)

\* a first then-callback can run: ENABLED <<\E t : Dispatch(t)>>_vars, spelled
\* out from the guard of Dispatch
DispatchReady ==
  \E t \in 1..Len(tasks) :
    /\ tasks[t].st = "content"
    /\ isMarkdownExtension(getFileExtension(tasks[t].value)) =>
         invs[tasks[t].inv].depth < MaxDepth

\* weak fairness of the first then-callbacks, with DispatchReady for ENABLED
DispatchFair ==
  []<>(~DispatchReady) \/ []<><<\E t \in 1..Len(tasks) : Dispatch(t)>>_vars

\* the event loop runs every callback that is ready, and a read or fetch that
\* does not hang settles; nothing makes the caller call the transformer
HungSpec ==
  /\ HungInit /\ [][HungNext]_vars
  /\ WF_vars(\E t \in 1..Len(tasks) : HungReadSettle(t))
  /\ WF_vars(\E t \in 1..Len(tasks) : HungFetchSettle(t))
  /\ WF_vars(\E i \in 1..Len(invs) : Complete(i))
  /\ WF_vars(\E t \in 1..Len(tasks) : Splice(t))
  /\ WF_vars(\E t \in 1..Len(tasks) : Catch(t))
  /\ DispatchFair

\* the chain whose read or fetch hangs
HungTasks == {t \in TaskIds : Hangs(tasks[t].value)}

\* every chain but the hung one has ended, and every block of the document
\* but the hung marker shows what it expands to on its own
OthersSettled ==
  /\ invs[1].st = "awaiting"
  /\ \A t \in TaskIds \ HungTasks : Settled(t)
  /\ \A k \in 1..Len(doc) :
       doc[k] \notin {Marker(RefHang), Marker(UrlHang)} =>
         Render(nodes, RootChildren[k]) = DenoteSeq(<<doc[k]>>, 1, TRUE, 1)

\* the hung chain is where the walk left it and its marker is untouched
HungBranchWaits ==
  \A t \in HungTasks :
    /\ tasks[t].st = "io"
    /\ nodes[tasks[t].node] = OrigTree[tasks[t].node]
    /\ ErrorsFor(tasks[t].node) = {}

\* C28: once the transformer has walked a document with one marker whose
\* read or fetch never settles, the other chains of the invocation all end
\* and their markers are spliced or reported in place, for good; the hung
\* chain stays pending with its marker untouched, and the invocation is never
\* resolved or rejected.
C28_HungBranchIsolated ==
  /\ (invs[1].st = "awaiting") ~> OthersSettled
  /\ [][OthersSettled => OthersSettled']_vars
  /\ [](HungBranchWaits /\ invs[1].st \in {"created", "awaiting"})

C28_Witness ==
  /\ doc = <<Marker(RefHang), Marker(RefN)>>
  /\ Len(tasks) = 3
  /\ tasks[1].st = "io" /\ Hangs(tasks[1].value)
  /\ Spliced(2) /\ Spliced(3)
  /\ invs[1].st = "awaiting" /\ invs[2].st = "fulfilled"
  /\ nodes[tasks[2].node].type = "mdxJsxFlowElement" /\ nodes[tasks[2].node].name = NullName

\* the malformed-marker warnings logged for node n
MalformedWarningsFor(n) ==
  {k \in 1..Len(log) : /\ log[k].level = "warn"
                       /\ log[k].head = "tag missing required attribute"
                       /\ log[k].node = n}

\* the chains queued for node n, and those of them that have spliced
ChainsOf(n) == {t \in TaskIds : tasks[t].node = n}
SplicesOf(n) == {t \in ChainsOf(n) : Spliced(t)}

\* the terminal outcomes node n has had so far
OutcomesOf(n) ==
  Cardinality(SplicesOf(n)) + Cardinality(MalformedWarningsFor(n)) + Cardinality(ErrorsFor(n))

C29_State ==
  \A n \in NodeIds :
    /\ Cardinality(ChainsOf(n)) <= 1
    /\ OutcomesOf(n) <= 1
    /\ (ErrorsFor(n) # {} \/ MalformedWarningsFor(n) # {}) =>
         (nodes[n].type \in JsxTypes /\ nodes[n].name = cfg.elementName)
    /\ MalformedWarningsFor(n) # {} => ChainsOf(n) = {}
    /\ \A t \in ChainsOf(n) :
         /\ invs[tasks[t].inv].st = "fulfilled" => OutcomesOf(n) = 1
         /\ tasks[t].st = "fulfilled" => (Spliced(t) \/ Reported(t))

C29_Step ==
  /\ \A n \in NodeIds :
       nodes'[n] # nodes[n] =>
         \E t \in ChainsOf(n) :
           /\ tasks[t].st = "result" /\ tasks'[t].st = "fulfilled"
           /\ OutcomesOf(n) = 0
  /\ \A t \in TaskIds : tasks[t].st = "fulfilled" => tasks'[t] = tasks[t]
  /\ \A k \in 1..Len(log) : log'[k] = log[k]
  /\ WalkStep =>
       \A n \in WalkedNodes :
         NamedAsConfigured(nodes'[n]) =>
           \/ \E t \in NewTaskIds : tasks'[t].node = n
           \/ \E k \in NewLogIds : log'[k] = MissingWarning(cfg, n)

\* C29: a marker has at most one chain and at most one outcome among splice,
\* malformed-marker warning and error diagnostic, and exactly one once its
\* invocation is resolved; every marker a walk finds gets a chain or the
\* warning; a node is written only by the splice of its own chain, once,
\* and never after an error or a warning for it.
C29_OneOutcome == [](C29_State) /\ [][C29_Step]_vars

C29_Witness ==
  /\ Done
  /\ doc = <<Jsx("Snippet", <<>>, <<>>), Marker(RefO)>>
  /\ Len(tasks) = 2
  /\ Cardinality(MalformedWarningsFor(RootChildren[1])) = 1
  /\ Spliced(1) /\ tasks[1].node = RootChildren[2]
  /\ Reported(2) /\ OutcomesOf(tasks[2].node) = 1
  /\ \A n \in NodeIds : OutcomesOf(n) <= 1

(* ---------- a transform whose reads and fetches all settle ------------- *)

\* markers of files that include themselves, each other, others, or nothing
ChainBlocks ==
  { Marker(RefLoop), Marker(RefP), Marker(RefN), Marker(RefJs), Marker(RefMissing) }

\* documents with inclusion chains of every kind: each block alone, the chain
\* blocks in pairs
FairDocs ==
  {<<b>> : b \in ChainBlocks \cup {Para(<<"P">>), Marker(RefA), Marker(RefO), Marker(RefG),
                                   Marker(RefM), Marker(UrlR), Marker(UrlQ), Marker(UrlK)}}
    \cup {<<a, b>> : a \in ChainBlocks, b \in ChainBlocks}

FairInit ==
  \E setup \in Setups, d \in FairDocs :
    /\ cfg = setup.options
    /\ doc = d
    /\ nodes = Parse(d, TRUE, 0)
    /\ invs = <<[tree |-> Len(Parse(d, TRUE, 0)), path |-> setup.path,
                 compiler |-> setup.compiler, st |-> "created", queue |-> <<>>,
                 parent |-> 0, depth |-> 1, options |-> setup.options]>>
    /\ tasks = <<>>
    /\ log = <<>>
    /\ deps = <<>>
    /\ ios = <<>>
    /\ probe = NoProbe

\* every read and fetch settles and the event loop runs every callback that
\* is ready; nothing makes the caller call the transformer
FairSpec ==
  /\ FairInit /\ [][Next]_vars
  /\ WF_vars(\E t \in 1..Len(tasks) : ReadSettle(t))
  /\ WF_vars(\E t \in 1..Len(tasks) : FetchSettle(t))
  /\ WF_vars(\E i \in 1..Len(invs) : Complete(i))
  /\ WF_vars(\E t \in 1..Len(tasks) : Splice(t))
  /\ WF_vars(\E t \in 1..Len(tasks) : Catch(t))
  /\ DispatchFair

\* the references of the well-formed markers a grammar finds in blocks
RECURSIVE RefsIn(_, _)
RefsIn(blocks, mdx) ==
  IF ~mdx THEN {}
  ELSE UNION {(IF BlockIsMarker(blocks[i]) /\ BlockWellFormed(blocks[i])
               THEN {BlockRef(blocks[i])} ELSE {}) \cup RefsIn(blocks[i].kids, mdx) :
              i \in 1..Len(blocks)}

\* the world's answer for a reference, and the grammar its content is read with
Resolves(ref) ==
  IF BeginsWithHttp(ref) THEN Network(ref).kind = "response" /\ Network(ref).ok
  ELSE pathJoin(snippetsDir, ref) \in DOMAIN FileSystem
ContentOf(ref) ==
  IF BeginsWithHttp(ref) THEN Network(ref).text ELSE FileSystem[pathJoin(snippetsDir, ref)]
GrammarOf(ref) == IF BeginsWithHttp(ref) THEN cfg.processor = "mdx" ELSE TRUE

\* the reference is resolved and its content is parsed as a document
Expands(ref) ==
  /\ Resolves(ref)
  /\ MarkdownRef(ref)
  /\ \/ ~GrammarOf(ref)
     \/ LET RECURSIVE ok(_)
            ok(blocks) == \A i \in 1..Len(blocks) : blocks[i].k # "bad" /\ ok(blocks[i].kids)
        IN ok(Blocks(ContentOf(ref)))

\* the edges of the inclusion graph, and what is reachable along them
IncludesOf(ref) ==
  IF Expands(ref) THEN RefsIn(Blocks(ContentOf(ref)), GrammarOf(ref)) ELSE {}

RECURSIVE Closure(_)
Closure(S) ==
  LET T == S \cup UNION {IncludesOf(r) : r \in S}
  IN IF T = S THEN S ELSE Closure(T)

\* a snippet reachable from the document includes itself, directly or not
Cyclic == \E r \in Closure(RefsIn(doc, TRUE)) : r \in Closure(IncludesOf(r))

\* the longest chain of documents included one in the other, from these references
RECURSIVE ChainLength(_)
ChainLength(refs) ==
  LET len(r) == IF Expands(r) THEN 1 + ChainLength(IncludesOf(r)) ELSE 0
  IN IF refs = {} THEN 0
     ELSE len(CHOOSE r \in refs : \A q \in refs : len(q) <= len(r))

\* the depth of the deepest invocation
Deepest == invs[CHOOSE i \in InvIds : \A j \in InvIds : invs[j].depth <= invs[i].depth].depth

C30_State ==
  IF Cyclic
  THEN /\ ~Done
       /\ Deepest <= MaxDepth
  ELSE /\ \A t \in TaskIds : ~AtDepthCap(t)
       /\ Deepest <= 1 + ChainLength(RefsIn(doc, TRUE))
       /\ Done => Deepest = 1 + ChainLength(RefsIn(doc, TRUE))

\* C30: with every read and fetch settling, a transformer that has been
\* called is resolved in the end if no snippet reachable from the document
\* includes itself, and its deepest invocation is then as deep as the longest
\* inclusion chain; if one does, it is never resolved and the nesting goes on
\* to the depth the model stops at, each level reading the snippet again.
C30_CompletesIffAcyclic ==
  /\ [](C30_State)
  /\ (invs[1].st = "awaiting" /\ ~Cyclic) ~> Done
  /\ (invs[1].st = "awaiting" /\ Cyclic) ~>
       (Deepest = MaxDepth /\ \E t \in TaskIds : AtDepthCap(t) /\ invs[tasks[t].inv].depth = MaxDepth)

C30_Witness ==
  /\ doc = <<Marker(RefP), Marker(RefN)>>
  /\ cfg.elementName = "Snippet"
  /\ Cyclic
  /\ invs[1].st = "awaiting"
  /\ Len(invs) = 5
  /\ \E t \in TaskIds : AtDepthCap(t) /\ tasks[t].value = RefP
  /\ \E t \in TaskIds : tasks[t].value = RefN /\ Spliced(t)
  /\ \A t \in TaskIds : tasks[t].st \in {"fulfilled", "running", "content"}

====
